---- MODULE Spec2Model ----
(***************************************************************************)
(* Rollover reconciliation core of the commission dashboard               *)
(* (lib/rollover: getPreviousMonth, parseCommissionPairs,                  *)
(* getIncompleteCommissions, checkAndApplyRollover in its two-phase form   *)
(* and in its older merge-into-pairs form), over the three collections     *)
(* leader_board, rollover_items and rollover_status.                       *)
(*                                                                         *)
(* JavaScript values are tagged records.  A JavaScript string is a         *)
(* sequence of tokens: one-character strings, plus a few letter runs       *)
(* ("null", "propertyCode", "January") kept as one token.                  *)
(***************************************************************************)
EXTENDS Integers, Sequences, FiniteSets, TLC

VARIABLES leader_board, rollover_items, rollover_status, pc, local, hist, runs,
          fnIn, fnOut

vars == <<leader_board, rollover_items, rollover_status, pc, local, hist, runs,
          fnIn, fnOut>>

dbVars == <<leader_board, rollover_items, rollover_status>>
procVars == <<pc, local, hist, runs>>
fnVars == <<fnIn, fnOut>>

-----------------------------------------------------------------------------
(* JavaScript values *)

Null == [t |-> "null"]
Undefined == [t |-> "undefined"]
NaN == [t |-> "NaN"]
Str(s) == [t |-> "string", s |-> s]
\* the number n / 10^d, with d = 0 or the last digit of n not 0
Dec(n, d) == [t |-> "number", n |-> n, d |-> d]
Num(n) == Dec(n, 0)
Bool(b) == [t |-> "boolean", b |-> b]
Arr(a) == [t |-> "array", a |-> a]
\* an object is the sequence of its <<key, value>> properties, in insertion order;
\* a key is a string (a token sequence)
Obj(o) == [t |-> "object", o |-> o]
\* the value of new Date()
DateNow == [t |-> "date"]
\* a thrown exception (TypeError, SyntaxError)
Throw == [t |-> "throw"]

IsNullish(v) == v.t \in {"null", "undefined"}

\* ToBoolean
Truthy(v) ==
    CASE v.t \in {"null", "undefined", "NaN"} -> FALSE
      [] v.t = "string" -> v.s # <<>>
      [] v.t = "number" -> v.n # 0
      [] v.t = "boolean" -> v.b
      [] OTHER -> TRUE

RECURSIVE HasKey(_, _)
HasKey(o, k) ==
    IF o = <<>> THEN FALSE
    ELSE IF o[1][1] = k THEN TRUE ELSE HasKey(Tail(o), k)

RECURSIVE Lookup(_, _)
Lookup(o, k) ==
    IF o = <<>> THEN Undefined
    ELSE IF o[1][1] = k THEN o[1][2] ELSE Lookup(Tail(o), k)

\* v.k : a property read.  Reading a property of null or undefined throws.
Get(v, k) ==
    CASE v.t \in {"null", "undefined"} -> Throw
      [] v.t = "object" -> Lookup(v.o, k)
      [] OTHER -> Undefined

\* o[k] = v : an existing key keeps its place, a new key goes last
PutProp(o, k, v) ==
    IF HasKey(o, k)
    THEN [i \in 1..Len(o) |-> IF o[i][1] = k THEN <<k, v>> ELSE o[i]]
    ELSE Append(o, <<k, v>>)

-----------------------------------------------------------------------------
(* Strings *)

Upper == <<"A", "B", "C", "J", "M">>
Lower == <<"a", "b", "c", "j", "m">>

LowerTok(c) ==
    IF \E i \in 1..Len(Upper) : Upper[i] = c
    THEN Lower[CHOOSE i \in 1..Len(Upper) : Upper[i] = c]
    ELSE c

ToLowerCase(s) == [i \in 1..Len(s) |-> LowerTok(s[i])]

RECURSIVE TrimStart(_)
TrimStart(s) ==
    IF s # <<>> /\ s[1] = " " THEN TrimStart(Tail(s)) ELSE s

RECURSIVE TrimEnd(_)
TrimEnd(s) ==
    IF s # <<>> /\ s[Len(s)] = " " THEN TrimEnd(SubSeq(s, 1, Len(s) - 1)) ELSE s

Trim(s) == TrimEnd(TrimStart(s))

Includes(s, c) == \E i \in 1..Len(s) : s[i] = c

\* s.split(c)[0]
SplitFirst(s, c) ==
    IF Includes(s, c)
    THEN SubSeq(s, 1, (CHOOSE i \in 1..Len(s) :
                          s[i] = c /\ \A j \in 1..(i - 1) : s[j] # c) - 1)
    ELSE s

\* s.split(c)
RECURSIVE Split(_, _)
Split(s, c) ==
    IF Includes(s, c)
    THEN <<SplitFirst(s, c)>> \o Split(SubSeq(s, Len(SplitFirst(s, c)) + 2, Len(s)), c)
    ELSE <<s>>

Digits == <<"0", "1", "2", "3", "4", "5", "6", "7", "8", "9">>
IsDigit(c) == \E i \in 1..10 : Digits[i] = c
DigitVal(c) == (CHOOSE i \in 1..10 : Digits[i] = c) - 1

RECURSIVE DigitsToNat(_)
DigitsToNat(s) ==
    IF s = <<>> THEN 0
    ELSE 10 * DigitsToNat(SubSeq(s, 1, Len(s) - 1)) + DigitVal(s[Len(s)])

RECURSIVE NatToDigits(_)
NatToDigits(n) ==
    IF n < 10 THEN <<Digits[n + 1]>>
    ELSE NatToDigits(n \div 10) \o <<Digits[(n % 10) + 1]>>

\* the longest prefix of s made of digits
RECURSIVE DigitPrefix(_)
DigitPrefix(s) ==
    IF s # <<>> /\ IsDigit(s[1]) THEN <<s[1]>> \o DigitPrefix(Tail(s)) ELSE <<>>

RECURSIVE StripZerosEnd(_)
StripZerosEnd(s) ==
    IF s # <<>> /\ s[Len(s)] = "0" THEN StripZerosEnd(SubSeq(s, 1, Len(s) - 1)) ELSE s

-----------------------------------------------------------------------------------------------------------------------------------------------------
(* Numbers *)

RECURSIVE Pow10(_)
Pow10(d) == IF d = 0 THEN 1 ELSE 10 * Pow10(d - 1)

\* the decimal literal with integer digits i and fraction digits f (trailing
\* zeros of f already removed), negated if neg
MkDec(i, f, neg) ==
    Dec(IF neg THEN 0 - DigitsToNat(i \o f) ELSE DigitsToNat(i \o f), Len(f))

\* s without a leading sign
Unsigned(s) == IF s # <<>> /\ s[1] \in {"-", "+"} THEN Tail(s) ELSE s

\* the fraction digits that follow the integer digits i of body
FractionOf(body, i) ==
    IF Len(body) > Len(i) /\ body[Len(i) + 1] = "."
    THEN DigitPrefix(SubSeq(body, Len(i) + 2, Len(body)))
    ELSE <<>>

\* the number read from integer digits i and fraction digits f of body, and
\* what follows it
DecimalRead(body, i, f, neg) ==
    IF i = <<>> /\ f = <<>>
    THEN [v |-> NaN, rest |-> body]
    ELSE [v |-> MkDec(i, StripZerosEnd(f), neg),
          rest |-> SubSeq(body,
                          Len(i) + 1 + (IF Len(body) > Len(i) /\ body[Len(i) + 1] = "."
                                        THEN 1 + Len(f) ELSE 0),
                          Len(body))]

DecimalBody(body, i, neg) == DecimalRead(body, i, FractionOf(body, i), neg)

\* the parse of a prefix [+-]digits[.digits] of s, NaN if there is none
DecimalPrefix(s) ==
    DecimalBody(Unsigned(s), DigitPrefix(Unsigned(s)), s # <<>> /\ s[1] = "-")

\* the fraction digits of |n| / 10^d, for d > 0
FractionDigits(r, d) ==
    <<".">> \o [k \in 1..(d - Len(NatToDigits(r))) |-> "0"] \o NatToDigits(r)

\* ToString of the number a / 10^d, a >= 0
UnsignedToString(a, d) ==
    NatToDigits(a \div Pow10(d))
    \o (IF d = 0 THEN <<>> ELSE FractionDigits(a % Pow10(d), d))

\* ToString of a number
NumToString(v) ==
    IF v.n < 0 THEN <<"-">> \o UnsignedToString(0 - v.n, v.d)
    ELSE UnsignedToString(v.n, v.d)

\* parseFloat(v)
ParseFloat(v) ==
    CASE v.t = "string" -> DecimalPrefix(TrimStart(v.s)).v
      [] v.t = "number" -> v
      [] OTHER -> NaN

\* a whole string as a number: the literal must leave nothing over
WholeNumber(r) == IF r.v.t = "number" /\ r.rest = <<>> THEN r.v ELSE NaN

\* Number(v), as Array.prototype.map(Number) applies it
ToNumber(v) ==
    CASE v.t = "number" -> v
      [] v.t = "null" -> Num(0)
      [] v.t = "boolean" -> Num(IF v.b THEN 1 ELSE 0)
      [] v.t = "string" ->
            IF Trim(v.s) = <<>> THEN Num(0) ELSE WholeNumber(DecimalPrefix(Trim(v.s)))
      [] OTHER -> NaN

\* ToIntegerOrInfinity of a number: truncation towards zero
Trunc(v) ==
    IF v.n < 0 THEN 0 - ((0 - v.n) \div Pow10(v.d)) ELSE v.n \div Pow10(v.d)

\* the number n / 10^d, normalised
Scaled(n, d) ==
    IF d > 0 /\ n % 10 = 0 THEN Dec(n \div 10, d - 1) ELSE Dec(n, d)

\* a - 2 for a number a with at most one fraction digit, NaN if a is not a number
MinusTwo(a) ==
    IF a.t # "number" THEN NaN
    ELSE IF a.d = 0 THEN Num(a.n - 2)
    ELSE Scaled(a.n - 2 * Pow10(a.d), a.d)

\* floor(a / b), a mod b for b > 0
FloorDiv(a, b) == IF a >= 0 THEN a \div b ELSE 0 - ((b - 1 - a) \div b)
FloorMod(a, b) == a - b * FloorDiv(a, b)

\* s.padStart(2, '0')
PadStart2(s) == [k \in 1..(2 - Len(s)) |-> "0"] \o s

-----------------------------------------------------------------------------
(* JSON *)

Quote == "\""
Backslash == "\\"

\* 1..n as a sequence
Indices(n) == [i \in 1..n |-> i]

\* the characters at the positions idx of s
Pick(s, idx) == [k \in 1..Len(idx) |-> s[idx[k]]]

\* the characters of a string as JSON.stringify writes them between quotes
RECURSIVE Escape(_)
Escape(s) ==
    IF s = <<>> THEN <<>>
    ELSE IF Len(s) = 1
         THEN IF s[1] \in {Quote, Backslash} THEN <<Backslash, s[1]>> ELSE s
         ELSE Escape(SubSeq(s, 1, Len(s) \div 2))
              \o Escape(SubSeq(s, Len(s) \div 2 + 1, Len(s)))

RECURSIVE JSONStringify(_), StringifyElems(_), StringifyProps(_, _)
\* JSON.stringify(v) for a value that is not undefined
JSONStringify(v) ==
    CASE v.t \in {"null", "NaN", "undefined"} -> <<"null">>
      [] v.t = "boolean" -> IF v.b THEN <<"true">> ELSE <<"false">>
      [] v.t = "number" -> NumToString(v)
      [] v.t = "string" -> <<Quote>> \o Escape(v.s) \o <<Quote>>
      [] v.t = "date" -> <<Quote, "ISODate", Quote>>
      [] v.t = "array" -> <<"[">> \o StringifyElems(v.a) \o <<"]">>
      [] v.t = "object" -> <<"{">> \o StringifyProps(v.o, TRUE) \o <<"}">>

StringifyElems(a) ==
    IF a = <<>> THEN <<>>
    ELSE JSONStringify(a[1])
         \o (IF Len(a) > 1 THEN <<",">> ELSE <<>>)
         \o StringifyElems(Tail(a))

\* a property whose value is undefined is left out
StringifyProps(o, first) ==
    IF o = <<>> THEN <<>>
    ELSE IF o[1][2].t = "undefined" THEN StringifyProps(Tail(o), first)
    ELSE (IF first THEN <<>> ELSE <<",">>)
         \o <<Quote>> \o Escape(o[1][1]) \o <<Quote, ":">> \o JSONStringify(o[1][2])
         \o StringifyProps(Tail(o), FALSE)

Fail == [ok |-> FALSE]
Ok(v, rest) == [ok |-> TRUE, v |-> v, rest |-> rest]

RECURSIVE SkipWs(_)
SkipWs(s) == IF s # <<>> /\ s[1] = " " THEN SkipWs(Tail(s)) ELSE s

\* the number of backslashes right before position i of s
RECURSIVE RunBefore(_, _)
RunBefore(s, i) ==
    IF i > 1 /\ s[i - 1] = Backslash THEN 1 + RunBefore(s, i - 1) ELSE 0

\* the string literal of s that ends at the quote at position close
StringUpTo(s, close) ==
    LET BadEsc(i) == s[i] \notin {Quote, Backslash} /\ RunBefore(s, i) % 2 = 1
        Kept(i)   == ~(s[i] = Backslash /\ RunBefore(s, i) % 2 = 0)
    IN  IF SelectSeq(Indices(close - 1), BadEsc) # <<>> THEN Fail
        ELSE Ok(Str(Pick(s, SelectSeq(Indices(close - 1), Kept))),
                SubSeq(s, close + 1, Len(s)))

\* the string literal whose closing quote is the first of the positions closing
StringEnding(s, closing) == IF closing = <<>> THEN Fail ELSE StringUpTo(s, closing[1])

\* the rest of a string literal after its opening quote: the literal ends at the
\* first quote that no backslash escapes; \" and \\ are the escapes
ParseChars(s) ==
    LET Closes(i) == s[i] = Quote /\ RunBefore(s, i) % 2 = 0
    IN  StringEnding(s, SelectSeq(Indices(Len(s)), Closes))

\* a JSON number -?(0|[1-9][0-9]*)(.[0-9]+)? with integer digits i, read from body
NumberRead(body, i, f, neg) ==
    IF \/ i = <<>>
       \/ Len(i) > 1 /\ i[1] = "0"
       \/ Len(body) > Len(i) /\ body[Len(i) + 1] = "." /\ f = <<>>
    THEN Fail
    ELSE Ok(MkDec(i, StripZerosEnd(f), neg), DecimalRead(body, i, f, neg).rest)

NumberBody(body, i, neg) == NumberRead(body, i, FractionOf(body, i), neg)

ParseNumber(s) ==
    NumberBody(IF s[1] = "-" THEN Tail(s) ELSE s,
               DigitPrefix(IF s[1] = "-" THEN Tail(s) ELSE s), s[1] = "-")

RECURSIVE ParseValue(_), ParseToken(_), ParseElems(_, _), ElemsAfter(_, _),
          ElemsNext(_, _, _), ParseMembers(_, _), MemberAfterKey(_, _),
          MemberValue(_, _, _), MemberAfterValue(_, _, _), MembersNext(_, _, _)
ParseValue(s) == ParseToken(SkipWs(s))

\* a value that starts at the first token of s
ParseToken(s) ==
    IF s = <<>> THEN Fail
    ELSE CASE s[1] = "null" -> Ok(Null, Tail(s))
           [] s[1] = "true" -> Ok(Bool(TRUE), Tail(s))
           [] s[1] = "false" -> Ok(Bool(FALSE), Tail(s))
           [] s[1] = Quote -> ParseChars(Tail(s))
           [] s[1] = "-" \/ IsDigit(s[1]) -> ParseNumber(s)
           [] s[1] = "[" -> ParseElems(SkipWs(Tail(s)), <<>>)
           [] s[1] = "{" -> ParseMembers(SkipWs(Tail(s)), <<>>)
           [] OTHER -> Fail

\* the elements of an array after "[" or ","; acc is what was read
ParseElems(s, acc) ==
    IF s # <<>> /\ s[1] = "]" /\ acc = <<>> THEN Ok(Arr(<<>>), Tail(s))
    ELSE ElemsAfter(ParseToken(s), acc)

ElemsAfter(r, acc) == IF ~r.ok THEN Fail ELSE ElemsNext(SkipWs(r.rest), r.v, acc)

ElemsNext(t, v, acc) ==
    IF t = <<>> THEN Fail
    ELSE IF t[1] = "]" THEN Ok(Arr(Append(acc, v)), Tail(t))
    ELSE IF t[1] = "," /\ SkipWs(Tail(t)) # <<>> /\ SkipWs(Tail(t))[1] # "]"
         THEN ParseElems(SkipWs(Tail(t)), Append(acc, v))
    ELSE Fail

\* the members of an object after "{" or ","; a repeated key keeps its last value
ParseMembers(s, acc) ==
    IF s # <<>> /\ s[1] = "}" /\ acc = <<>> THEN Ok(Obj(<<>>), Tail(s))
    ELSE IF s = <<>> \/ s[1] # Quote THEN Fail
    ELSE MemberAfterKey(ParseChars(Tail(s)), acc)

MemberAfterKey(k, acc) == IF ~k.ok THEN Fail ELSE MemberValue(SkipWs(k.rest), k.v.s, acc)

MemberValue(c, key, acc) ==
    IF c = <<>> \/ c[1] # ":" THEN Fail
    ELSE MemberAfterValue(ParseValue(Tail(c)), key, acc)

MemberAfterValue(r, key, acc) ==
    IF ~r.ok THEN Fail ELSE MembersNext(SkipWs(r.rest), PutProp(acc, key, r.v), acc)

MembersNext(t, o, acc) ==
    IF t = <<>> THEN Fail
    ELSE IF t[1] = "}" THEN Ok(Obj(o), Tail(t))
    ELSE IF t[1] = "," /\ SkipWs(Tail(t)) # <<>> /\ SkipWs(Tail(t))[1] = Quote
         THEN ParseMembers(SkipWs(Tail(t)), o)
    ELSE Fail

\* the value of a text that holds one value and nothing else
WholeValue(r) == IF r.ok /\ SkipWs(r.rest) = <<>> THEN r.v ELSE Throw

\* JSON.parse(s) of a string s: the value, or Throw (SyntaxError)
JSONParse(s) == WholeValue(ParseValue(s))

-----
(* Months *)

\* new Date(year, monthIndex, 1): the local full year and month index of the date,
\* for numbers year and monthIndex or NaN.  A year 0..99 means 1900 + year.
NewDate(year, monthIndex) ==
    IF year.t # "number" \/ monthIndex.t # "number" THEN [valid |-> FALSE]
    ELSE LET y  == Trunc(year)
             m  == Trunc(monthIndex)
             yr == IF 0 <= y /\ y <= 99 THEN 1900 + y ELSE y
         IN  [valid |-> TRUE, fullYear |-> yr + FloorDiv(m, 12), month |-> FloorMod(m, 12)]

\* String(n) of an integer, or of NaN
IntToString(valid, n) == IF valid THEN NumToString(Num(n)) ELSE <<"N", "a", "N">>

\* `${date.getFullYear()}-${String(date.getMonth() + 1).padStart(2, '0')}`
FormatYearMonth(date) ==
    IF date.valid
    THEN Str(IntToString(TRUE, date.fullYear) \o <<"-">>
             \o PadStart2(IntToString(TRUE, date.month + 1)))
    ELSE Str(IntToString(FALSE, 0) \o <<"-">> \o PadStart2(IntToString(FALSE, 0)))

\* const [year, month] = parts.map(Number); new Date(year, month - 2, 1)
PreviousOf(parts) ==
    FormatYearMonth(NewDate(ToNumber(Str(parts[1])),
                            MinusTwo(IF Len(parts) >= 2 THEN ToNumber(Str(parts[2]))
                                     ELSE NaN)))

getPreviousMonth(monthStr) ==
    IF ~Truthy(monthStr) THEN Null
    ELSE IF monthStr.t # "string" THEN Null
    ELSE PreviousOf(Split(monthStr.s, "-"))

MonthNames == <<"January", "February", "March", "April", "May", "June", "July",
                "August", "September", "October", "November", "December">>

\* the label of the parts of a month string
LabelOf(parts) ==
    IF /\ Len(parts) = 2
       /\ Len(parts[1]) = 4 /\ DigitPrefix(parts[1]) = parts[1]
       /\ Len(parts[2]) = 2 /\ DigitPrefix(parts[2]) = parts[2]
       /\ DigitsToNat(parts[2]) \in 1..12
    THEN Str(<<MonthNames[DigitsToNat(parts[2])], " ">>
             \o NatToDigits(DigitsToNat(parts[1])))
    ELSE Str(<<"Invalid Date">>)

\* formatMonthLabel(monthStr) for a string monthStr, the server's zone being UTC:
\* monthStr + '-01' is read as an ISO date when it is YYYY-MM-01
formatMonthLabel(monthStr) ==
    IF ~Truthy(monthStr) THEN Str(<<"Unknown">>) ELSE LabelOf(Split(monthStr.s, "-"))

-----------------------------------------------------------------------------
(* Commission-pair normalizer *)

\* a cleaning that leaves the escaped quotes in place
KeepEscapedQuotes(s) == s

\* s.replace(/\\"/g, '"'): every backslash that a quote follows goes
ReplaceEscapedQuotes(s) ==
    LET Kept(i) == ~(s[i] = Backslash /\ i < Len(s) /\ s[i + 1] = Quote)
    IN  Pick(s, SelectSeq(Indices(Len(s)), Kept))

\* if (cleaned.startsWith('"') && cleaned.endsWith('"')) cleaned = cleaned.slice(1, -1)
StripQuotes(c) ==
    IF c # <<>> /\ c[1] = Quote /\ c[Len(c)] = Quote THEN SubSeq(c, 2, Len(c) - 1) ELSE c

\* a cleaning that returns whatever the parse gave
AnyParsed(parsed) == parsed

\* Array.isArray(parsed) ? parsed : [], and [] when the parse threw
ArrayOrEmpty(parsed) == IF parsed.t = "array" THEN parsed ELSE Arr(<<>>)

\* step 2 of parseCommissionPairs: the legacy cleaning
LegacyClean(s) == ArrayOrEmpty(JSONParse(StripQuotes(ReplaceEscapedQuotes(s))))

RECURSIVE parseCommissionPairs(_), AfterParse(_, _), AfterInnerParse(_, _)
parseCommissionPairs(rawData) ==
    IF ~Truthy(rawData) THEN Arr(<<>>)
    ELSE IF rawData.t = "array" THEN rawData
    ELSE IF rawData.t = "string" THEN AfterParse(rawData, JSONParse(rawData.s))
    ELSE Arr(<<>>)

\* step 1 of parseCommissionPairs once JSON.parse(rawData) gave parsed
AfterParse(rawData, parsed) ==
    IF parsed.t = "array" THEN parsed
    ELSE IF parsed.t = "string" THEN AfterInnerParse(parsed, JSONParse(parsed.s))
    ELSE LegacyClean(rawData.s)

\* the double-encoded case once JSON.parse(parsed) gave inner
AfterInnerParse(parsed, inner) ==
    IF inner.t = "array" THEN inner ELSE parseCommissionPairs(parsed)

-----------------------------------------------------------------------------
(* Incomplete-item selector *)

K_propertyCode == <<"propertyCode">>
K_commissionValue == <<"commissionValue">>
K_commission == <<"commission">>
K_sourceMonth == <<"sourceMonth">>
K_sourceMonthLabel == <<"sourceMonthLabel">>
K_isRollover == <<"isRollover">>

\* v?.trim().toLowerCase(): undefined for null and undefined, a TypeError for a
\* value that is not a string
NormalizeCode(v) ==
    IF IsNullish(v) THEN Undefined
    ELSE IF v.t = "string" THEN Str(ToLowerCase(Trim(v.s)))
    ELSE Throw

\* d.propertyCode?.trim().toLowerCase() of one earned detail
EarnedCodeOf(d) ==
    IF IsNullish(d) THEN Throw ELSE NormalizeCode(Get(d, K_propertyCode))

\* new Set(mapped.filter(Boolean)) for the mapped earned details
CodeSet(mapped) ==
    IF \E i \in 1..Len(mapped) : mapped[i].t = "throw"
    THEN [throw |-> TRUE, codes |-> {}]
    ELSE [throw |-> FALSE,
          codes |-> {mapped[i].s : i \in {j \in 1..Len(mapped) : Truthy(mapped[j])}}]

\* the Set of earned codes: (earnedDetails || []).map(...).filter(Boolean)
EarnedCodes(earnedDetails) ==
    IF ~Truthy(earnedDetails) THEN [throw |-> FALSE, codes |-> {}]
    ELSE IF earnedDetails.t # "array" THEN [throw |-> TRUE, codes |-> {}]
    ELSE CodeSet([i \in 1..Len(earnedDetails.a) |-> EarnedCodeOf(earnedDetails.a[i])])

\* the last test of the filter callback: normalizedCode && !earnedCodes.has(...)
CodeVerdict(normalizedCode, codes) ==
    IF normalizedCode.t = "throw" THEN "throw"
    ELSE IF Truthy(normalizedCode) /\ normalizedCode.s \notin codes THEN "keep"
    ELSE "drop"

\* the tests on numValue without the test for zero
ValueVerdictKeepZero(pair, numValue, codes) ==
    IF numValue.t = "NaN" THEN "drop"
    ELSE CodeVerdict(NormalizeCode(Get(pair, K_propertyCode)), codes)

\* the tests on numValue = parseFloat(commValue)
ValueVerdict(pair, numValue, codes) ==
    IF numValue.t = "NaN" \/ numValue.n = 0 THEN "drop"
    ELSE CodeVerdict(NormalizeCode(Get(pair, K_propertyCode)), codes)

\* the tests on commValue = pair.commissionValue
CommVerdict(pair, commValue, codes) ==
    IF IsNullish(commValue) \/ commValue = Str(<<>>) \/ commValue = Str(<<"null">>)
    THEN "drop"
    ELSE ValueVerdict(pair, ParseFloat(commValue), codes)

\* the filter callback on one pair: "keep", "drop" or "throw"
PairVerdict(pair, codes) ==
    IF ~Truthy(pair) THEN "drop"
    ELSE CommVerdict(pair, Get(pair, K_commissionValue), codes)

\* commissionPairs.filter(...) given the callback's verdict on each pair
FilterPairs(a, verdicts) ==
    LET Keep(i) == verdicts[i] = "keep"
    IN  IF \E i \in 1..Len(a) : verdicts[i] = "throw" THEN Throw
        ELSE Arr(Pick(a, SelectSeq(Indices(Len(a)), Keep)))

\* the filter with the Set of earned codes at hand
SelectWith(commissionPairs, earned) ==
    IF earned.throw \/ commissionPairs.t # "array" THEN Throw
    ELSE FilterPairs(commissionPairs.a,
                     [i \in 1..Len(commissionPairs.a) |->
                         PairVerdict(commissionPairs.a[i], earned.codes)])

\* getIncompleteCommissions(commissionPairs, earnedDetails): an array, or Throw
getIncompleteCommissions(commissionPairs, earnedDetails) ==
    SelectWith(commissionPairs, EarnedCodes(earnedDetails))

-----
(* Documents and collections.  A collection is the sequence of its documents *)
(* in natural order; a field that a document lacks is Undefined.             *)

\* a leader_board document ('Agent Name' is AgentName)
AgentDoc(id, month, userIdMonthId, name, pairs, earned, rollover) ==
    [_id |-> id, month |-> month, userIdMonthId |-> userIdMonthId, AgentName |-> name,
     commission_property_pair |-> pairs, earnedDetails |-> earned,
     rollover_commission_list |-> rollover, last_rollover_update |-> Undefined]

\* a query condition {field: v}: equal, or an array holding v; null also
\* matches a missing field
MongoEq(field, v) ==
    \/ field = v
    \/ field.t = "array" /\ \E i \in 1..Len(field.a) : field.a[i] = v
    \/ v.t = "null" /\ field.t = "undefined"

\* the first document that a filter matches, 0 if there is none: hits[i] tells
\* whether the filter matches document i
MatchFirst(hits) ==
    IF \E i \in 1..Len(hits) : hits[i]
    THEN CHOOSE i \in 1..Len(hits) : hits[i] /\ \A j \in 1..(i - 1) : ~hits[j]
    ELSE 0

\* the filter { _id: id }
IdHits(coll, id) == [i \in 1..Len(coll) |-> coll[i]._id = id]

\* updateOne(filter, {$set}, {upsert: true}) is two steps of the storage: it
\* looks for the first match, then it rewrites the match or inserts; nothing in
\* the program makes the pair atomic (no unique index)
\* the second step: doc is what $set makes of the match, and what is inserted
WriteUpsert(coll, matched, doc) ==
    IF matched = 0 THEN Append(coll, doc) ELSE [coll EXCEPT ![matched] = doc]

-----------------------------------------------------------------------------
(* Agent key *)

\* a key that is always the trimmed lowercased 'Agent Name'
ResolveKeyByName(agent) ==
    IF agent.AgentName.t = "string" THEN Str(ToLowerCase(Trim(agent.AgentName.s)))
    ELSE Str(<<>>)

\* the key of a leader_board document: the part of userIdMonthId before the
\* first underscore, else the trimmed lowercased 'Agent Name'
ResolveKey(agent) ==
    LET id   == agent.userIdMonthId
        name == agent.AgentName
    IN  IF Truthy(id) /\ id.t \notin {"string", "array"} THEN Throw
        ELSE IF Truthy(id) /\ id.t = "array" /\ \E i \in 1..Len(id.a) : id.a[i] = Str(<<"_">>)
             THEN Throw
        ELSE IF Truthy(id) /\ id.t = "string" /\ Includes(id.s, "_")
             THEN Str(SplitFirst(id.s, "_"))
        ELSE IF ~Truthy(name) THEN Str(<<>>)
        ELSE IF name.t = "string" THEN Str(ToLowerCase(Trim(name.s)))
        ELSE Throw

\* the key as ensureRolloverItemsCalculated takes it from a previous-month document
calculatorKey(agent) == ResolveKey(agent)

\* the key as applyRolloverToMissingRecords takes it from a target-month document
applicatorKey(agent) == ResolveKey(agent)

-----------------------------------------------------------------------------
(* A Map, as the sequence of its <<key, value>> entries in insertion order *)

MapHas(m, k) == \E i \in 1..Len(m) : m[i][1] = k
MapGet(m, k) ==
    IF MapHas(m, k) THEN m[CHOOSE i \in 1..Len(m) : m[i][1] = k][2] ELSE Undefined
MapSet(m, k, v) ==
    IF MapHas(m, k)
    THEN [i \in 1..Len(m) |-> IF m[i][1] = k THEN <<k, v>> ELSE m[i]]
    ELSE Append(m, <<k, v>>)

-----------------------------------------------------------------------------
(* Rollover calculator *)

\* an enrichment without the isRollover tag
EnrichUntagged(item, previousMonth, sourceMonthLabel) ==
    Obj(PutProp(PutProp(IF item.t = "object" THEN item.o ELSE <<>>,
                        K_sourceMonth, previousMonth),
                K_sourceMonthLabel, sourceMonthLabel))

\* { ...item, sourceMonth, sourceMonthLabel, isRollover: true }
Enrich(item, previousMonth, sourceMonthLabel) ==
    Obj(PutProp(PutProp(PutProp(IF item.t = "object" THEN item.o ELSE <<>>,
                                K_sourceMonth, previousMonth),
                        K_sourceMonthLabel, sourceMonthLabel),
                K_isRollover, Bool(TRUE)))

\* a filter that does not look at the commission
WellFormedEarnedAny(d) == Truthy(d) /\ Truthy(Get(d, K_propertyCode))

\* the filter on agent.earnedDetails
WellFormedEarned(d) ==
    /\ Truthy(d)
    /\ Truthy(Get(d, K_propertyCode))
    /\ ~IsNullish(Get(d, K_commission))

\* (agent.earnedDetails || []).filter(...): a TypeError for a truthy value
\* that is not an array
FilteredEarned(raw) ==
    IF ~Truthy(raw) THEN Arr(<<>>)
    ELSE IF raw.t = "array" THEN Arr(SelectSeq(raw.a, WellFormedEarned))
    ELSE Throw

\* incomplete.map(item => ({...item, sourceMonth, sourceMonthLabel, isRollover}))
EnrichAll(incomplete, previousMonth, sourceMonthLabel) ==
    Arr([k \in 1..Len(incomplete.a) |->
            Enrich(incomplete.a[k], previousMonth, sourceMonthLabel)])

Outcome(kind, key, items) == [kind |-> kind, key |-> key, items |-> items]

\* if (incomplete.length > 0) { ... }
AgentOutcome(key, incomplete, previousMonth) ==
    IF incomplete.t = "throw" THEN Outcome("throw", key, Undefined)
    ELSE IF Len(incomplete.a) = 0 THEN Outcome("skip", key, Undefined)
    ELSE Outcome("items", key,
                 EnrichAll(incomplete, previousMonth, formatMonthLabel(previousMonth)))

\* getIncompleteCommissions(commissionPairs, earnedDetails) for one agent; the
\* try around parseCommissionPairs catches nothing, the function never throws
AgentIncomplete(agent, earnedDetails) ==
    IF earnedDetails.t = "throw" THEN Throw
    ELSE getIncompleteCommissions(parseCommissionPairs(agent.commission_property_pair),
                                  earnedDetails)

\* if (!key) continue; and the rest of the loop body
AgentWithKey(agent, key, previousMonth) ==
    IF key.t = "throw" THEN Outcome("throw", key, Undefined)
    ELSE IF ~Truthy(key) THEN Outcome("skip", key, Undefined)
    ELSE AgentOutcome(key, AgentIncomplete(agent, FilteredEarned(agent.earnedDetails)),
                      previousMonth)

\* the body of the loop over previousData for one agent, up to the await:
\* "skip" (continue, or nothing incomplete), "throw", or "items" with the
\* key and the enriched items
AgentRollover(agent, previousMonth) ==
    AgentWithKey(agent, calculatorKey(agent), previousMonth)

\* the loop over previousData from agent i on: the first agent that throws or
\* has items, or "end"
RECURSIVE NextOutcome(_, _, _), OutcomeAt(_, _, _, _)
NextOutcome(previousData, i, previousMonth) ==
    IF i > Len(previousData) THEN [at |-> i, o |-> Outcome("end", Undefined, Undefined)]
    ELSE OutcomeAt(previousData, i, previousMonth,
                   AgentRollover(previousData[i], previousMonth))

OutcomeAt(previousData, i, previousMonth, o) ==
    IF o.kind = "skip" THEN NextOutcome(previousData, i + 1, previousMonth)
    ELSE [at |-> i, o |-> o]

\* a rollover_items document that keeps the first item only
RolloverItemsDocFirst(targetMonth, key, previousMonth, enrichedItems) ==
    [targetMonth |-> targetMonth, agentKey |-> key, sourceMonth |-> previousMonth,
     rolloverItems |-> Str(JSONStringify(Arr(<<enrichedItems.a[1]>>))),
     itemCount |-> Num(1), calculatedAt |-> DateNow]

\* the rollover_items document written for one agent
RolloverItemsDoc(targetMonth, key, previousMonth, enrichedItems) ==
    [targetMonth |-> targetMonth, agentKey |-> key, sourceMonth |-> previousMonth,
     rolloverItems |-> Str(JSONStringify(enrichedItems)),
     itemCount |-> Num(Len(enrichedItems.a)), calculatedAt |-> DateNow]

\* try { parsedItems = JSON.parse(parsedItems) } catch (e) { parsedItems = [] }
ParsedOrEmpty(j) == IF j.t = "throw" THEN Arr(<<>>) ELSE j

\* item.rolloverItems, parsed when it is a string
ParsedItems(stored) ==
    IF stored.t = "string" THEN ParsedOrEmpty(JSONParse(stored.s)) ELSE stored

\* if (Array.isArray(parsedItems) && parsedItems.length > 0) rolloverMap.set(...)
LoadItem(map, agentKey, parsed) ==
    IF parsed.t = "array" /\ Len(parsed.a) > 0 THEN MapSet(map, agentKey, parsed) ELSE map

\* the Map built from the rollover_items documents already stored
RECURSIVE LoadExisting(_, _)
LoadExisting(existing, map) ==
    IF existing = <<>> THEN map
    ELSE LoadExisting(Tail(existing),
                      LoadItem(map, existing[1].agentKey,
                               ParsedItems(existing[1].rolloverItems)))

-----
(* Bounds and initial data *)

\* at most this many leader_board documents of the previous month
MaxPrev == 2
\* at most this many leader_board documents of the target month
MaxCur == 2
\* at most this many invocations of checkAndApplyRollover
MaxRuns == 2

Procs == {"p1", "p2"}

TargetMonth == Str(<<"2", "0", "2", "6", "-", "0", "1">>)
PrevMonth == Str(<<"2", "0", "2", "5", "-", "1", "2">>)

Pair(code, value) == Obj(<<<<K_propertyCode, code>>, <<K_commissionValue, value>>>>)
Earned(code, amount) == Obj(<<<<K_propertyCode, code>>, <<K_commission, amount>>>>)

PairA50 == Pair(Str(<<"A">>), Str(<<"5", "0">>))
PairB75 == Pair(Str(<<"B">>), Str(<<"7", "5">>))
PairA9 == Pair(Str(<<"a", " ">>), Num(9))
PairB0 == Pair(Str(<<"B">>), Str(<<"0">>))
PairNum == Pair(Num(5), Str(<<"5", "0">>))

UserId(n, yyyymm) == Str(<<"u", n, "_">> \o yyyymm)
PrevId(n) == UserId(n, <<"2", "0", "2", "5", "1", "2">>)
CurId(n) == UserId(n, <<"2", "0", "2", "6", "0", "1">>)

\* previous-month documents, before _id and month are given
PrevPool ==
    { \* agent u1: A earned, B unpaid; the list stored as a JSON string
      AgentDoc(0, PrevMonth, PrevId("1"), Str(<<"J", "o">>),
               Str(JSONStringify(Arr(<<PairA50, PairB75>>))),
               Arr(<<Earned(Str(<<"A">>), Num(50))>>), Undefined),
      \* a legacy document without userIdMonthId: key "jo"
      AgentDoc(0, PrevMonth, Undefined, Str(<<" ", "J", "o">>),
               Arr(<<PairA50>>), Undefined, Undefined),
      \* a second legacy document with key "jo"; two pairs with the code "a"
      AgentDoc(0, PrevMonth, Undefined, Str(<<"j", "o">>),
               Arr(<<PairB0, PairA9, PairA50>>), Arr(<<>>), Undefined),
      \* a pair whose propertyCode is a number
      AgentDoc(0, PrevMonth, PrevId("2"), Str(<<"M">>),
               Arr(<<PairNum>>), Arr(<<>>), Undefined),
      \* earnedDetails that is not a list
      AgentDoc(0, PrevMonth, PrevId("2"), Str(<<"M">>),
               Arr(<<PairB75>>), Str(<<"x">>), Undefined),
      \* a commission list no strategy parses
      AgentDoc(0, PrevMonth, PrevId("2"), Str(<<"M">>),
               Str(<<"[", "{">>), Arr(<<>>), Undefined),
      \* an identifier that starts with the underscore: the empty key
      AgentDoc(0, PrevMonth, Str(<<"_", "x">>), Str(<<"M">>),
               Arr(<<PairB75>>), Arr(<<>>), Undefined) }

\* a rollover list some earlier run stored
StoredList ==
    Str(JSONStringify(Arr(<<Enrich(PairA50, PrevMonth, formatMonthLabel(PrevMonth))>>)))

\* target-month documents, before _id is given
CurPool ==
    { AgentDoc(0, TargetMonth, CurId("1"), Str(<<"J", "o", "e">>),
               Arr(<<PairA50>>), Arr(<<>>), Undefined),
      AgentDoc(0, TargetMonth, Undefined, Str(<<"J", "o", " ">>),
               Str(JSONStringify(Arr(<<PairB75>>))), Arr(<<>>), Str(<<"[", "]">>)),
      AgentDoc(0, TargetMonth, CurId("1"), Str(<<"J", "o">>),
               Arr(<<>>), Arr(<<>>), StoredList),
      AgentDoc(0, TargetMonth, Undefined, Str(<<"j", "o">>),
               Arr(<<>>), Arr(<<>>), Null) }

SeqsUpTo(S, n) == UNION {[1..k -> S] : k \in 0..n}

\* the sequences of up to n different elements of S
DistinctSeqsUpTo(S, n) ==
    {s \in SeqsUpTo(S, n) : \A i, j \in 1..Len(s) : s[i] = s[j] => i = j}

\* the collection made of the documents a, then b, with _id in natural order
Collection(a, b) == [i \in 1..(Len(a) + Len(b)) |-> [(a \o b)[i] EXCEPT !._id = i]]

\* write is the upsert under way: <<>>, or <<match, document>>
InitLocal ==
    [targetMonth |-> Undefined, previousMonth |-> Undefined, rolloverMap |-> <<>>,
     previousData |-> <<>>, i |-> 0, currentData |-> <<>>, j |-> 0,
     updatedCount |-> 0, totalMergedItems |-> 0, write |-> <<>>, result |-> Undefined]

InitWith(prevPool, curPool) ==
    /\ \E a \in DistinctSeqsUpTo(prevPool, MaxPrev),
          b \in DistinctSeqsUpTo(curPool, MaxCur) :
           leader_board = Collection(a, b)
    /\ rollover_items = <<>>
    /\ rollover_status = <<>>
    /\ pc = [p \in Procs |-> "idle"]
    /\ local = [p \in Procs |-> InitLocal]
    /\ hist = <<>>
    /\ runs = 0
    /\ fnIn = [fn |-> "none", args |-> <<>>]
    /\ fnOut = Undefined

Init == InitWith(PrevPool, CurPool)

-----------------------------------------------------------------------------------------------------------------------------------------------------
(* checkAndApplyRollover, two-phase: one action per step of the storage *)

ResultObj(applied, rest) == Obj(<<<<<<"applied">>, Bool(applied)>>>> \o rest)
NoItemsResult ==
    ResultObj(TRUE, <<<<<<"itemsMerged">>, Num(0)>>,
                      <<<<"message">>, Str(<<"No rollover items to apply.">>)>>>>)
ErrorResult == ResultObj(FALSE, <<<<<<"error">>, Str(<<"message">>)>>>>)
NoPreviousResult ==
    ResultObj(FALSE, <<<<<<"itemsMerged">>, Num(0)>>,
                       <<<<"error">>, Str(<<"Could not calculate previous month">>)>>>>)
AppliedResult(itemsMerged, agentsUpdated, message) ==
    ResultObj(TRUE, <<<<<<"itemsMerged">>, Num(itemsMerged)>>,
                      <<<<"agentsUpdated">>, Num(agentsUpdated)>>,
                      <<<<"message">>, Str(<<message>>)>>>>)

Finish(p, loc, result) ==
    /\ pc' = [pc EXCEPT ![p] = "done"]
    /\ local' = [local EXCEPT ![p] = [loc EXCEPT !.result = result]]

\* what checkAndApplyRollover does with the Map that the calculation returned
AfterCalculate(p, loc, kind) ==
    /\ hist' = Append(hist, [proc |-> p, kind |-> kind, targetMonth |-> loc.targetMonth,
                             map |-> loc.rolloverMap, previousData |-> loc.previousData])
    /\ IF Len(loc.rolloverMap) = 0
       THEN Finish(p, loc, NoItemsResult)
       ELSE /\ pc' = [pc EXCEPT ![p] = "apply_find"]
            /\ local' = [local EXCEPT ![p] = loc]

\* the entry with previousMonth computed
Enter(p, loc, next) ==
    IF ~Truthy(loc.previousMonth)
    THEN Finish(p, loc, NoPreviousResult)
    ELSE /\ pc' = [pc EXCEPT ![p] = next]
         /\ local' = [local EXCEPT ![p] = loc]

\* entry: the previous month
Start(p, targetMonth) ==
    /\ pc[p] \in {"idle", "done"}
    /\ runs < MaxRuns
    /\ runs' = runs + 1
    /\ Enter(p, [InitLocal EXCEPT !.targetMonth = targetMonth,
                                  !.previousMonth = getPreviousMonth(targetMonth)],
             "calc_check")
    /\ UNCHANGED <<dbVars, hist, fnVars>>

\* a cache check that always goes on to calculate afresh
RecomputeAlways(p, existingRolloverItems) ==
    /\ pc' = [pc EXCEPT ![p] = "calc_load"]
    /\ UNCHANGED <<local, hist>>

\* the cache check, given the rollover_items documents of the month
CacheFound(p, existingRolloverItems) ==
    IF Len(existingRolloverItems) > 0
    THEN AfterCalculate(p, [local[p] EXCEPT
                              !.rolloverMap = LoadExisting(existingRolloverItems, <<>>)],
                        "cache")
    ELSE /\ pc' = [pc EXCEPT ![p] = "calc_load"]
         /\ UNCHANGED <<local, hist>>

\* ensureRolloverItemsCalculated: the find on rollover_items
CacheCheck(p) ==
    /\ pc[p] = "calc_check"
    /\ LET InMonth(d) == MongoEq(d.targetMonth, local[p].targetMonth)
       IN  CacheFound(p, SelectSeq(rollover_items, InMonth))
    /\ UNCHANGED <<dbVars, runs, fnVars>>

\* a projection that puts the items of the rollover field among the pairs
ProjectWithRollover(d) ==
    [d EXCEPT !.month = Undefined,
              !.commission_property_pair
                  = Arr(parseCommissionPairs(d.commission_property_pair).a
                        \o parseCommissionPairs(d.rollover_commission_list).a),
              !.rollover_commission_list = Undefined,
              !.last_rollover_update = Undefined]

\* the projection of the find on the previous month
ProjectPrevious(d) ==
    [d EXCEPT !.month = Undefined, !.rollover_commission_list = Undefined,
              !.last_rollover_update = Undefined]

\* find({ month })
FindMonth(coll, month) ==
    LET InMonth(d) == MongoEq(d.month, month)
    IN  SelectSeq(coll, InMonth)

\* .project({ 'Agent Name': 1, userIdMonthId: 1, commission_property_pair: 1,
\* earnedDetails: 1 })
ProjectAll(found) == [k \in 1..Len(found) |-> ProjectPrevious(found[k])]

\* if (!previousData || previousData.length === 0) return rolloverMap
PreviousFound(p, previousData) ==
    IF Len(previousData) = 0
    THEN AfterCalculate(p, local[p], "fresh")
    ELSE /\ pc' = [pc EXCEPT ![p] = "calc_loop"]
         /\ local' = [local EXCEPT ![p] = [@ EXCEPT !.previousData = previousData,
                                                    !.i = 1]]
         /\ UNCHANGED hist

\* ensureRolloverItemsCalculated: the find on the previous month
LoadPrevious(p) ==
    /\ pc[p] = "calc_load"
    /\ PreviousFound(p, ProjectAll(FindMonth(leader_board, local[p].previousMonth)))
    /\ UNCHANGED <<dbVars, runs, fnVars>>

\* rolloverMap.set(key, enrichedItems), and the first step of the upsert
SendUpsert(p, loc, at, key, doc) ==
    LET Same(d) == MongoEq(d.targetMonth, loc.targetMonth) /\ MongoEq(d.agentKey, key)
    IN  /\ local' = [local EXCEPT ![p] =
               [loc EXCEPT !.i = at + 1,
                           !.write = <<MatchFirst([i \in 1..Len(rollover_items) |->
                                                     Same(rollover_items[i])]),
                                       doc>>]]
        /\ pc' = [pc EXCEPT ![p] = "calc_write"]
        /\ UNCHANGED hist

\* the loop body at the first agent that does not continue: next is where the
\* loop got to
CalcOutcome(p, loc, next) ==
    IF next.o.kind = "end" THEN AfterCalculate(p, loc, "fresh")
    ELSE IF next.o.kind = "throw"
         THEN Finish(p, loc, ErrorResult) /\ UNCHANGED hist
    ELSE SendUpsert(p, [loc EXCEPT !.rolloverMap = MapSet(@, next.o.key, next.o.items)],
                    next.at, next.o.key,
                    RolloverItemsDoc(loc.targetMonth, next.o.key, loc.previousMonth,
                                     next.o.items))

\* ensureRolloverItemsCalculated: the loop from agent i to the next awaited
\* upsert, to a throw, or to its end
CalcAgent(p) ==
    /\ pc[p] = "calc_loop"
    /\ CalcOutcome(p, local[p],
                   NextOutcome(local[p].previousData, local[p].i, local[p].previousMonth))
    /\ UNCHANGED <<dbVars, runs, fnVars>>

\* ensureRolloverItemsCalculated: the upsert into rollover_items takes effect
PersistItems(p) ==
    /\ pc[p] = "calc_write"
    /\ rollover_items' = WriteUpsert(rollover_items, local[p].write[1], local[p].write[2])
    /\ local' = [local EXCEPT ![p].write = <<>>]
    /\ pc' = [pc EXCEPT ![p] = "calc_loop"]
    /\ UNCHANGED <<leader_board, rollover_status, hist, runs, fnVars>>

-----------------------------------------------------------------------------
(* Rollover applicator and status ledger *)

\* a find that takes every document of the month
AnyRollover(d) == TRUE

\* a find that takes only the documents without the field
AbsentRollover(d) == d.rollover_commission_list.t = "undefined"

\* the $or of the find in applyRolloverToMissingRecords
MissingRollover(d) ==
    \/ d.rollover_commission_list.t = "undefined"
    \/ MongoEq(d.rollover_commission_list, Null)
    \/ MongoEq(d.rollover_commission_list, Str(<<>>))
    \/ MongoEq(d.rollover_commission_list, Str(<<"[", "]">>))

\* an update that writes the first item only
ApplyToRecordFirst(d, rolloverItems) ==
    [d EXCEPT !.rollover_commission_list = Str(JSONStringify(Arr(<<rolloverItems.a[1]>>))),
              !.last_rollover_update = DateNow]

\* the $set of the update of one target-month document
ApplyToRecord(d, rolloverItems) ==
    [d EXCEPT !.rollover_commission_list = Str(JSONStringify(rolloverItems)),
              !.last_rollover_update = DateNow]

\* the rollover_status document that markRolloverAsApplied sets
StatusDoc(month, itemsMerged, reason, sourceMonth) ==
    [month |-> month, applied |-> Bool(TRUE), appliedAt |-> DateNow,
     itemsMerged |-> Num(itemsMerged), reason |-> Str(<<reason>>),
     sourceMonth |-> sourceMonth]

\* markRolloverAsApplied(db, month, itemsMerged, reason, sourceMonth): the first
\* step of its upsert; result is what the caller returns after it
markRolloverAsApplied(p, loc, itemsMerged, reason, sourceMonth, result) ==
    LET Same(d) == MongoEq(d.month, loc.targetMonth)
    IN  /\ local' = [local EXCEPT ![p] =
               [loc EXCEPT !.write = <<MatchFirst([i \in 1..Len(rollover_status) |->
                                                     Same(rollover_status[i])]),
                                       StatusDoc(loc.targetMonth, itemsMerged, reason,
                                                 sourceMonth)>>,
                           !.result = result]]
        /\ pc' = [pc EXCEPT ![p] = "mark_write"]

\* markRolloverAsApplied: the upsert into rollover_status takes effect, and the
\* caller returns
StatusWrite(p) ==
    /\ pc[p] = "mark_write"
    /\ rollover_status' = WriteUpsert(rollover_status, local[p].write[1], local[p].write[2])
    /\ local' = [local EXCEPT ![p].write = <<>>]
    /\ pc' = [pc EXCEPT ![p] = "done"]
    /\ UNCHANGED <<leader_board, rollover_items, hist, runs, fnVars>>

\* applyRolloverToMissingRecords: the find on the target month
FindMissing(p) ==
    /\ pc[p] = "apply_find"
    /\ LET Wanted(d) == MongoEq(d.month, local[p].targetMonth) /\ MissingRollover(d)
       IN  local' = [local EXCEPT ![p] =
                        [@ EXCEPT !.currentData = SelectSeq(leader_board, Wanted),
                                  !.j = 1, !.updatedCount = 0, !.totalMergedItems = 0]]
    /\ pc' = [pc EXCEPT ![p] = "apply_loop"]
    /\ UNCHANGED <<dbVars, hist, runs, fnVars>>

Verdict(at, kind, items) == [at |-> at, kind |-> kind, items |-> items]

\* the loop over currentData from document j on: the first document that throws
\* or is written, or "end"
RECURSIVE NextApply(_, _, _), ApplyWithKey(_, _, _, _), ApplyItems(_, _, _, _)
NextApply(currentData, j, rolloverMap) ==
    IF j > Len(currentData) THEN Verdict(j, "end", Undefined)
    ELSE ApplyWithKey(currentData, j, rolloverMap, applicatorKey(currentData[j]))

ApplyWithKey(currentData, j, rolloverMap, key) ==
    IF key.t = "throw" THEN Verdict(j, "throw", Undefined)
    ELSE ApplyItems(currentData, j, rolloverMap, MapGet(rolloverMap, key))

\* if (rolloverItems && rolloverItems.length > 0)
ApplyItems(currentData, j, rolloverMap, rolloverItems) ==
    IF Truthy(rolloverItems) /\ rolloverItems.t = "array" /\ Len(rolloverItems.a) > 0
    THEN Verdict(j, "write", rolloverItems)
    ELSE NextApply(currentData, j + 1, rolloverMap)

\* the update of the document the loop got to
ApplyWrite(p, loc, agent, rolloverItems) ==
    LET k == MatchFirst(IdHits(leader_board, agent._id))
    IN  /\ leader_board' = IF k = 0 THEN leader_board
                           ELSE [leader_board EXCEPT ![k] = ApplyToRecord(@, rolloverItems)]
        /\ local' = [local EXCEPT ![p] =
               [loc EXCEPT !.j = @ + 1, !.updatedCount = @ + 1,
                           !.totalMergedItems = @ + Len(rolloverItems.a)]]
        /\ UNCHANGED pc

\* a status whose itemsMerged adds to what the ledger held
MarkAppliedCumulative(p, loc) ==
    LET Same(d) == MongoEq(d.month, loc.targetMonth)
        held    == SelectSeq(rollover_status, Same)
    IN  markRolloverAsApplied(p, loc,
            loc.totalMergedItems + (IF held = <<>> THEN 0 ELSE held[1].itemsMerged.n),
            "success_continuous_sync", Null,
            AppliedResult(loc.totalMergedItems, loc.updatedCount,
                          IF loc.updatedCount > 0 THEN "Applied rollover to records."
                          ELSE "All records already have rollover data."))

\* applyRolloverToMissingRecords after its loop: the status and the result
MarkApplied(p, loc) ==
    markRolloverAsApplied(p, loc, loc.totalMergedItems, "success_continuous_sync", Null,
        AppliedResult(loc.totalMergedItems, loc.updatedCount,
                      IF loc.updatedCount > 0 THEN "Applied rollover to records."
                      ELSE "All records already have rollover data."))

ApplyOutcome(p, loc, next) ==
    IF next.kind = "end" THEN MarkApplied(p, loc) /\ UNCHANGED leader_board
    ELSE IF next.kind = "throw" THEN Finish(p, loc, ErrorResult) /\ UNCHANGED leader_board
    ELSE ApplyWrite(p, [loc EXCEPT !.j = next.at], loc.currentData[next.at], next.items)

\* applyRolloverToMissingRecords: the loop from document j to the next awaited
\* update, to a throw, or to its end and the call of markRolloverAsApplied
ApplyAgent(p) ==
    /\ pc[p] = "apply_loop"
    /\ ApplyOutcome(p, local[p],
                    NextApply(local[p].currentData, local[p].j, local[p].rolloverMap))
    /\ UNCHANGED <<rollover_items, rollover_status, hist, runs, fnVars>>

Step(p) ==
    \/ CacheCheck(p)
    \/ LoadPrevious(p)
    \/ CalcAgent(p)
    \/ PersistItems(p)
    \/ FindMissing(p)
    \/ ApplyAgent(p)
    \/ StatusWrite(p)

RequestMonths == {TargetMonth}

\* one request at a time
StartAlone ==
    /\ \A q \in Procs : pc[q] \in {"idle", "done"}
    /\ \E m \in RequestMonths : Start("p1", m)

Next ==
    \/ StartAlone
    \/ \E p \in Procs : Step(p)

Spec == Init /\ [][Next]_vars

-----------------------------------------------------------------------------
(* checkAndApplyRollover, the variant that merges into commission_property_pair *)

\* the projection of its find on the previous month: userIdMonthId is not asked for
ProjectPreviousMerge(d) == [ProjectPrevious(d) EXCEPT !.userIdMonthId = Undefined]

\* .project({ 'Agent Name': 1, commission_property_pair: 1, earnedDetails: 1 })
ProjectAllMerge(found) == [k \in 1..Len(found) |-> ProjectPreviousMerge(found[k])]

\* `${v}`
RECURSIVE TemplateString(_), JoinElems(_)
TemplateString(v) ==
    CASE v.t = "string" -> v.s
      [] v.t = "number" -> NumToString(v)
      [] v.t = "boolean" -> IF v.b THEN <<"true">> ELSE <<"false">>
      [] v.t = "array" -> JoinElems(v.a)
      [] v.t = "object" -> <<"[object Object]">>
      [] v.t = "date" -> <<"DateString">>
      [] OTHER -> <<v.t>>

JoinElems(a) ==
    IF a = <<>> THEN <<>>
    ELSE (IF IsNullish(a[1]) THEN <<>> ELSE TemplateString(a[1]))
         \o (IF Len(a) > 1 THEN <<",">> ELSE <<>>)
         \o JoinElems(Tail(a))

\* `${code}_${sourceMonth}` for code = propertyCode?.trim().toLowerCase()
KeyFrom(code, sourceMonth) ==
    IF code.t = "throw" THEN Throw
    ELSE Str(TemplateString(code) \o <<"_">> \o TemplateString(sourceMonth))

\* the dedup key of one item
ItemKey(item) ==
    KeyFrom(NormalizeCode(Get(item, K_propertyCode)), Get(item, K_sourceMonth))

\* the dedup key of a stored pair if it is a rollover item, else undefined
StoredKey(pair) ==
    IF IsNullish(pair) THEN Throw
    ELSE IF Get(pair, K_isRollover) = Bool(TRUE) THEN ItemKey(pair)
    ELSE Undefined

KeySet(marks) ==
    IF \E i \in 1..Len(marks) : marks[i].t = "throw"
    THEN [throw |-> TRUE, keys |-> {}]
    ELSE [throw |-> FALSE,
          keys |-> {marks[i] : i \in {j \in 1..Len(marks) : marks[j].t = "string"}}]

\* existingKeys: the keys of the rollover items already among currentPairs
ExistingKeys(currentPairs) ==
    KeySet([i \in 1..Len(currentPairs.a) |-> StoredKey(currentPairs.a[i])])

\* the items that the loop pushes: existingKeys is not added to on the way
PushedItems(rolloverItems, itemKeys, existing) ==
    LET New(i) == itemKeys[i] \notin existing.keys
    IN  IF existing.throw \/ \E i \in 1..Len(itemKeys) : itemKeys[i].t = "throw"
        THEN Throw
        ELSE Arr(Pick(rolloverItems.a, SelectSeq(Indices(Len(rolloverItems.a)), New)))

\* the synchronous loop that builds rolloverMap: the Map, or a throw
RECURSIVE BuildMap(_, _, _, _), BuildFrom(_, _, _, _)
BuildMap(previousData, i, previousMonth, map) ==
    BuildFrom(previousData, previousMonth, map, NextOutcome(previousData, i, previousMonth))

BuildFrom(previousData, previousMonth, map, next) ==
    IF next.o.kind = "end" THEN [throw |-> FALSE, map |-> map]
    ELSE IF next.o.kind = "throw" THEN [throw |-> TRUE, map |-> map]
    ELSE BuildMap(previousData, next.at + 1, previousMonth,
                  MapSet(map, next.o.key, next.o.items))

\* the loop over currentData from document j on: the first document that throws
\* or is written, or "end"
RECURSIVE NextToMerge(_, _, _), MergeWithKey(_, _, _, _), MergeItems(_, _, _, _),
          MergePairs(_, _, _, _, _), MergePushed(_, _, _, _, _)
NextToMerge(currentData, j, rolloverMap) ==
    IF j > Len(currentData) THEN Verdict(j, "end", Undefined)
    ELSE MergeWithKey(currentData, j, rolloverMap, applicatorKey(currentData[j]))

MergeWithKey(currentData, j, rolloverMap, key) ==
    IF key.t = "throw" THEN Verdict(j, "throw", Undefined)
    ELSE MergeItems(currentData, j, rolloverMap, MapGet(rolloverMap, key))

MergeItems(currentData, j, rolloverMap, rolloverItems) ==
    IF Truthy(rolloverItems) /\ rolloverItems.t = "array" /\ Len(rolloverItems.a) > 0
    THEN MergePairs(currentData, j, rolloverMap, rolloverItems,
                    parseCommissionPairs(currentData[j].commission_property_pair))
    ELSE NextToMerge(currentData, j + 1, rolloverMap)

MergePairs(currentData, j, rolloverMap, rolloverItems, currentPairs) ==
    MergePushed(currentData, j, rolloverMap, currentPairs,
                PushedItems(rolloverItems,
                            [i \in 1..Len(rolloverItems.a) |-> ItemKey(rolloverItems.a[i])],
                            ExistingKeys(currentPairs)))

\* if (added) { ... }
MergePushed(currentData, j, rolloverMap, currentPairs, pushed) ==
    IF pushed.t = "throw" THEN Verdict(j, "throw", Undefined)
    ELSE IF Len(pushed.a) = 0 THEN NextToMerge(currentData, j + 1, rolloverMap)
    ELSE Verdict(j, "write", [pairs |-> Arr(currentPairs.a \o pushed.a),
                              added |-> Len(pushed.a)])

\* the $set of the update of one target-month document
MergeToRecord(d, currentPairs) ==
    [d EXCEPT !.commission_property_pair = Str(JSONStringify(currentPairs)),
              !.last_rollover_update = DateNow]

MergeStart(p, targetMonth) ==
    /\ pc[p] \in {"idle", "done"}
    /\ runs < MaxRuns
    /\ runs' = runs + 1
    /\ Enter(p, [InitLocal EXCEPT !.targetMonth = targetMonth,
                                  !.previousMonth = getPreviousMonth(targetMonth)],
             "merge_load")
    /\ UNCHANGED <<dbVars, hist, fnVars>>

\* step 3 done: built is the Map or a throw
MergeBuilt(p, loc, built) ==
    IF built.throw THEN Finish(p, loc, ErrorResult) /\ UNCHANGED hist
    ELSE IF Len(built.map) = 0
         THEN /\ markRolloverAsApplied(p, loc, 0, "no_incomplete_items", Null,
                     AppliedResult(0, 0, "No incomplete items found to rollover."))
              /\ UNCHANGED hist
    ELSE /\ pc' = [pc EXCEPT ![p] = "merge_find"]
         /\ local' = [local EXCEPT ![p] = [loc EXCEPT !.rolloverMap = built.map]]
         /\ hist' = Append(hist, [proc |-> p, kind |-> "merge",
                                  targetMonth |-> loc.targetMonth, map |-> built.map,
                                  previousData |-> loc.previousData])

MergeLoaded(p, loc, previousData) ==
    IF Len(previousData) = 0
    THEN /\ markRolloverAsApplied(p, loc, 0, "no_previous_data", Null,
                AppliedResult(0, 0, "No data in previous month to rollover."))
         /\ UNCHANGED hist
    ELSE MergeBuilt(p, [loc EXCEPT !.previousData = previousData],
                    BuildMap(previousData, 1, loc.previousMonth, <<>>))

\* steps 2 and 3: the find on the previous month and the Map
MergeLoad(p) ==
    /\ pc[p] = "merge_load"
    /\ MergeLoaded(p, local[p],
                   ProjectAllMerge(FindMonth(leader_board, local[p].previousMonth)))
    /\ UNCHANGED <<dbVars, runs, fnVars>>

\* step 4: the find on the target month
MergeFind(p) ==
    /\ pc[p] = "merge_find"
    /\ local' = [local EXCEPT ![p] =
           [@ EXCEPT !.currentData = FindMonth(leader_board, local[p].targetMonth),
                     !.j = 1, !.updatedCount = 0, !.totalMergedItems = 0]]
    /\ pc' = [pc EXCEPT ![p] = "merge_loop"]
    /\ UNCHANGED <<dbVars, hist, runs, fnVars>>

MergeWrite(p, loc, agent, merged) ==
    LET k == MatchFirst(IdHits(leader_board, agent._id))
    IN  /\ leader_board' = IF k = 0 THEN leader_board
                           ELSE [leader_board EXCEPT ![k] = MergeToRecord(@, merged.pairs)]
        /\ local' = [local EXCEPT ![p] =
               [loc EXCEPT !.j = @ + 1, !.updatedCount = @ + 1,
                           !.totalMergedItems = @ + merged.added]]
        /\ UNCHANGED pc

MergeOutcome(p, loc, next) ==
    IF next.kind = "end"
    THEN /\ markRolloverAsApplied(p, loc, loc.totalMergedItems, "success",
                loc.previousMonth,
                AppliedResult(loc.totalMergedItems, loc.updatedCount,
                              "Rollover applied successfully."))
         /\ UNCHANGED leader_board
    ELSE IF next.kind = "throw" THEN Finish(p, loc, ErrorResult) /\ UNCHANGED leader_board
    ELSE MergeWrite(p, [loc EXCEPT !.j = next.at], loc.currentData[next.at], next.items)

\* step 4: the loop from document j to the next awaited update, to a throw, or to
\* its end and step 5
MergeAgent(p) ==
    /\ pc[p] = "merge_loop"
    /\ MergeOutcome(p, local[p],
                    NextToMerge(local[p].currentData, local[p].j, local[p].rolloverMap))
    /\ UNCHANGED <<rollover_items, rollover_status, hist, runs, fnVars>>

MergeStep(p) ==
    \/ MergeLoad(p)
    \/ MergeFind(p)
    \/ MergeAgent(p)
    \/ StatusWrite(p)

MergeStartAlone ==
    /\ \A q \in Procs : pc[q] \in {"idle", "done"}
    /\ \E m \in RequestMonths : MergeStart("p1", m)

MergeNext ==
    \/ MergeStartAlone
    \/ \E p \in Procs : MergeStep(p)

SpecMerge == Init /\ [][MergeNext]_vars

-----------------------------------------------------------------------------
(* Requests that overlap: the dashboard calls checkAndApplyRollover on every *)
(* request, and nothing serialises two requests for the same month          *)

ConcPrevPool == {d \in PrevPool : d.AgentName \in {Str(<<"J", "o">>), Str(<<" ", "J", "o">>)}}
ConcCurPool == {d \in CurPool : d.rollover_commission_list.t = "undefined"}

InitConc == InitWith(ConcPrevPool, ConcCurPool)

StartAny == \E p \in Procs, m \in RequestMonths : Start(p, m)

NextConc ==
    \/ StartAny
    \/ \E p \in Procs : Step(p)

SpecConc == InitConc /\ [][NextConc]_vars

-----------------------------------------------------------------------------
(* The pure functions on their own: fnIn is the call, fnOut what it returns *)

\* at most this many pairs in a list handed to getIncompleteCommissions
MaxPairs == 2

PairC == Pair(Str(<<"C">>), Null)
PairA100 == Pair(Str(<<"A">>), Str(<<"1", "0", "0">>))

\* the pairs of the example: A:'100', B:'0', C:null
ExamplePairs == <<PairA100, PairB0, PairC>>

PairPool ==
    { PairA100, PairB0, PairC, PairB75, PairA9, PairNum, Null,
      Pair(Str(<<"B">>), Str(<<"0", ".", "0">>)),
      Pair(Str(<<"B">>), Num(0)),
      Pair(Str(<<"B">>), Str(<<"7", ".", "5", "x">>)),
      Pair(Str(<<"C">>), Str(<<"a", "b", "c">>)),
      Pair(Str(<<"C">>), Str(<<>>)),
      Pair(Str(<<"C">>), Str(<<"null">>)),
      Pair(Str(<<"C">>), Undefined),
      Pair(Str(<<" ">>), Str(<<"5", "0">>)),
      Pair(Undefined, Str(<<"5", "0">>)) }

EarnedPool ==
    { Undefined, Null, Arr(<<>>),
      Arr(<<Earned(Str(<<"A">>), Num(100))>>),
      Arr(<<Earned(Str(<<" ", "b">>), Num(75)), Earned(Undefined, Num(1))>>),
      Arr(<<Earned(Num(5), Num(1))>>),
      Arr(<<Null>>) }

SelectorInputs == SeqsUpTo(PairPool, MaxPairs) \cup {ExamplePairs}

\* the years of the month strings handed to getPreviousMonth
Years == {1, 50, 99, 100, 999, 1000, 1999, 2025, 2026, 9999}

\* n as at least w digits
RECURSIVE PadDigits(_, _)
PadDigits(n, w) ==
    IF w <= 1 THEN NatToDigits(n)
    ELSE IF n < Pow10(w - 1) THEN <<"0">> \o PadDigits(n, w - 1)
    ELSE NatToDigits(n)

\* the month string YYYY-MM
MonthString(y, m) == Str(PadDigits(y, 4) \o <<"-">> \o PadDigits(m, 2))

InitFn == InitWith({}, {})

CallSelector ==
    /\ fnIn.fn = "none"
    /\ \E pairs \in SelectorInputs, earned \in EarnedPool :
           /\ fnIn' = [fn |-> "getIncompleteCommissions", args |-> <<Arr(pairs), earned>>]
           /\ fnOut' = getIncompleteCommissions(Arr(pairs), earned)
    /\ UNCHANGED <<dbVars, procVars>>

CallPreviousMonth ==
    /\ fnIn.fn = "none"
    /\ \E y \in Years, m \in 1..12 :
           /\ fnIn' = [fn |-> "getPreviousMonth", args |-> <<MonthString(y, m)>>]
           /\ fnOut' = getPreviousMonth(MonthString(y, m))
    /\ UNCHANGED <<dbVars, procVars>>

\* at most this many layers of JSON encoding around a commission list
MaxDepth == 3

\* pairs with a non-empty code and a numeric, non-zero value; a code may hold a
\* quote or a backslash
ValidPairPool ==
    { PairA50, PairB75, PairA9,
      Pair(Str(<<"B">>), Str(<<"7", ".", "5">>)),
      Pair(Str(<<"A", Quote, "B">>), Str(<<"5", "0">>)),
      Pair(Str(<<"A", Backslash>>), Str(<<"5", "0">>)),
      Pair(Str(<<Backslash, "A">>), Str(<<"5", "0">>)) }

\* text with a backslash put before every quote
RECURSIVE EscapeQuotes(_)
EscapeQuotes(s) ==
    IF s = <<>> THEN <<>>
    ELSE IF Len(s) = 1 THEN (IF s[1] = Quote THEN <<Backslash, Quote>> ELSE s)
    ELSE EscapeQuotes(SubSeq(s, 1, Len(s) \div 2))
         \o EscapeQuotes(SubSeq(s, Len(s) \div 2 + 1, Len(s)))

\* text under k - 1 further layers of JSON.stringify
RECURSIVE Nested(_, _)
Nested(s, k) == IF k <= 1 THEN s ELSE Nested(JSONStringify(Str(s)), k - 1)

\* the stored encodings of a commission list whose JSON text is given
Encodings(text) ==
    {Nested(text, k) : k \in 1..MaxDepth}
        \cup {EscapeQuotes(text), <<Quote>> \o EscapeQuotes(text) \o <<Quote>>}

CallNormalizer ==
    /\ fnIn.fn = "none"
    /\ \E pairs \in SeqsUpTo(ValidPairPool, MaxPairs) :
           \E raw \in Encodings(JSONStringify(Arr(pairs))) :
               /\ fnIn' = [fn |-> "parseCommissionPairs", args |-> <<Arr(pairs), Str(raw)>>]
               /\ fnOut' = parseCommissionPairs(Str(raw))
    /\ UNCHANGED <<dbVars, procVars>>

\* at most this many entries in the earnedDetails of a record
MaxEarned == 2

\* earned details of codes A and B with a commission of 0, of 50, null and absent
EarnedDetailPool ==
    { Earned(Str(<<"A">>), Num(0)), Earned(Str(<<"A">>), Num(50)),
      Earned(Str(<<"a">>), Null), Earned(Str(<<"A">>), Undefined),
      Earned(Str(<<" ", "b">>), Num(0)), Earned(Str(<<"B">>), Null) }

\* the loop body of ensureRolloverItemsCalculated on one previous-month record
CallAgentRollover ==
    /\ fnIn.fn = "none"
    /\ \E pairs \in SeqsUpTo({PairA50, PairB75, PairA9}, MaxPairs),
          earned \in SeqsUpTo(EarnedDetailPool, MaxEarned) :
           LET agent == ProjectPrevious(AgentDoc(1, PrevMonth, PrevId("1"), Str(<<"J", "o">>),
                                                 Arr(pairs), Arr(earned), Undefined))
           IN  /\ fnIn' = [fn |-> "AgentRollover", args |-> <<agent>>]
               /\ fnOut' = AgentRollover(agent, PrevMonth)
    /\ UNCHANGED <<dbVars, procVars>>

\* values that are no encoding of a commission list: sequences as they are,
\* absent values, values that are neither text nor sequence, and text that
\* parses to no sequence
SoftInputs ==
    { Arr(<<>>), Arr(<<PairA50, PairB0>>), Arr(<<Null, Num(5), Str(<<"x">>)>>),
      Null, Undefined, Str(<<>>),
      Num(5), Num(0), Bool(TRUE), Bool(FALSE), NaN, PairA50, DateNow,
      Str(JSONStringify(PairA50)), Str(<<"5">>), Str(<<"7", ".", "5">>), Str(<<"-">>),
      Str(<<"null">>), Str(<<"true">>), Str(<<"a", "b", "c">>), Str(<<" ">>),
      Str(<<"[", "{">>), Str(<<"[", "1", ",">>), Str(<<Quote>>), Str(<<Backslash, Quote>>),
      Str(<<Quote, Quote>>), Str(JSONStringify(Str(<<"a", "b", "c">>))),
      Str(JSONStringify(Str(<<"5">>))), Str(JSONStringify(Str(<<"[", "{">>))),
      Str(JSONStringify(Str(JSONStringify(PairA50)))),
      Str(<<Quote>> \o EscapeQuotes(JSONStringify(PairA50)) \o <<Quote>>),
      Str(EscapeQuotes(JSONStringify(PairA50))) }

CallNormalizerSoft ==
    /\ fnIn.fn = "none"
    /\ \E raw \in SoftInputs :
           /\ fnIn' = [fn |-> "parseCommissionPairs (any value)", args |-> <<raw>>]
           /\ fnOut' = parseCommissionPairs(raw)
    /\ UNCHANGED <<dbVars, procVars>>

NextFn ==
    \/ CallSelector
    \/ CallPreviousMonth
    \/ CallNormalizer
    \/ CallAgentRollover
    \/ CallNormalizerSoft

SpecFn == InitFn /\ [][NextFn]_vars

-----------------------------------------------------------------------------
(* Properties *)

TargetDocs == {i \in 1..Len(leader_board) : leader_board[i].month = TargetMonth}
PreviousDocs == {i \in 1..Len(leader_board) : leader_board[i].month = PrevMonth}

\* the first invocation has returned
FirstRunDone == runs = 1 /\ pc["p1"] = "done"

\* what the calculator's loop body makes of a stored previous-month document
Computed(i) == AgentRollover(ProjectPrevious(leader_board[i]), PrevMonth)

\* no two items of a list share (normalized propertyCode, sourceMonth)
NoRepeat(items) ==
    items.t = "array" =>
        \A a, b \in 1..Len(items.a) : a < b => ItemKey(items.a[a]) # ItemKey(items.a[b])

\* C1: once checkAndApplyRollover has run, the rollover field of every
\* target-month record holds each (normalized propertyCode, sourceMonth)
\* combination at most once
C1_EachCombinationOnce ==
    runs >= 1 =>
        \A i \in TargetDocs :
            leader_board[i].rollover_commission_list.t = "string" =>
                NoRepeat(ParsedItems(leader_board[i].rollover_commission_list))

\* a rollover field that holds a list with something in it
NonEmptyRollover(d) ==
    /\ d.rollover_commission_list.t = "string"
    /\ d.rollover_commission_list.s \notin {<<>>, <<"[", "]">>}

\* C2: no step rewrites the rollover field of a target-month record whose
\* rollover field is non-empty
C2_GapFillingOnly ==
    [][\A i \in TargetDocs :
          NonEmptyRollover(leader_board[i]) =>
              leader_board'[i].rollover_commission_list
                  = leader_board[i].rollover_commission_list]_vars

\* an apply run ended with a mapping whose entry for the key of a record differs
\* from the list the record has held since the start
C2_Witness ==
    /\ pc["p1"] = "done"
    /\ Len(rollover_status) > 0
    /\ \E i \in TargetDocs :
          /\ leader_board[i].rollover_commission_list = StoredList
          /\ MapHas(local["p1"].rolloverMap, applicatorKey(leader_board[i]))
          /\ Str(JSONStringify(MapGet(local["p1"].rolloverMap,
                                      applicatorKey(leader_board[i])))) # StoredList

\* C3: a mapping loaded from rollover_items after a calculation that returned
\* has the keys and, per key, the item sequence of the mapping that
\* calculation returned
C3_CacheEqualsFresh ==
    \A a, b \in 1..Len(hist) :
        (/\ a < b
         /\ hist[a].kind = "fresh" /\ hist[b].kind = "cache"
         /\ hist[a].targetMonth = hist[b].targetMonth)
        => hist[b].map = hist[a].map

\* a second call has loaded from the cache a mapping with an entry of two items
C3_Witness ==
    /\ Len(hist) >= 2
    /\ hist[1].kind = "fresh" /\ hist[2].kind = "cache"
    /\ \E k \in 1..Len(hist[2].map) : Len(hist[2].map[k][2].a) >= 2

\* C4: rollover_items holds at most one document per (targetMonth, agentKey)
C4_OneRecordPerKey ==
    \A i, j \in 1..Len(rollover_items) :
        (/\ rollover_items[i].targetMonth = rollover_items[j].targetMonth
         /\ rollover_items[i].agentKey = rollover_items[j].agentKey)
        => i = j

\* the item is in the list with its propertyCode and commissionValue
HoldsItem(list, item) ==
    /\ list.t = "array"
    /\ \E m \in 1..Len(list.a) :
          /\ Get(list.a[m], K_propertyCode) = Get(item, K_propertyCode)
          /\ Get(list.a[m], K_commissionValue) = Get(item, K_commissionValue)

\* C5: the mapping of a fresh calculation holds, under the key of each
\* previous-month record, every item selected from that record
C5_NoItemDropped ==
    \A h \in 1..Len(hist) :
        hist[h].kind = "fresh" =>
            \A k \in 1..Len(hist[h].previousData) :
                LET o == AgentRollover(hist[h].previousData[k], PrevMonth)
                IN  o.kind = "items" =>
                        \A n \in 1..Len(o.items.a) :
                            HoldsItem(MapGet(hist[h].map, o.key), o.items.a[n])

\* the rollover field was missing or empty when the first invocation began
WasMissing(d) == MissingRollover(d) \/ d.last_rollover_update = DateNow

\* C6: after one checkAndApplyRollover, a target-month record that had no
\* rollover list holds exactly the enriched incomplete items of the
\* previous-month record with its key
C6_CarryForward ==
    FirstRunDone =>
        \A x \in PreviousDocs, y \in TargetDocs :
            (/\ Computed(x).kind = "items"
             /\ applicatorKey(leader_board[y]) = Computed(x).key
             /\ WasMissing(leader_board[y]))
            => leader_board[y].rollover_commission_list
                   = Str(JSONStringify(Computed(x).items))

\* the rule of the selector, from its statement: the normalized code of a value
ClaimedCode(v) == IF v.t = "string" THEN ToLowerCase(Trim(v.s)) ELSE <<>>

ClaimedEarned(earned) ==
    IF earned.t = "array"
    THEN {ClaimedCode(Get(earned.a[i], K_propertyCode)) : i \in 1..Len(earned.a)}
    ELSE {}

ClaimedKept(pair, earned) ==
    /\ pair.t = "object"
    /\ Get(pair, K_commissionValue) \notin {Null, Undefined, Str(<<>>), Str(<<"null">>)}
    /\ ParseFloat(Get(pair, K_commissionValue)).t = "number"
    /\ ParseFloat(Get(pair, K_commissionValue)).n # 0
    /\ ClaimedCode(Get(pair, K_propertyCode)) # <<>>
    /\ ClaimedCode(Get(pair, K_propertyCode)) \notin ClaimedEarned(earned)

\* C7: what getIncompleteCommissions returns is the subsequence, in order and
\* with repeats, of the pairs that the rule keeps; the example yields nothing
C7_SelectorRule ==
    (fnIn.fn = "getIncompleteCommissions" /\ fnOut.t # "throw") =>
        LET Kept(pair) == ClaimedKept(pair, fnIn.args[2])
        IN  /\ fnOut = Arr(SelectSeq(fnIn.args[1].a, Kept))
            /\ (/\ fnIn.args[1] = Arr(ExamplePairs)
                /\ fnIn.args[2] = Arr(<<Earned(Str(<<"A">>), Num(100))>>))
               => fnOut = Arr(<<>>)

\* the example has been computed
C7_Witness ==
    /\ fnIn.fn = "getIncompleteCommissions"
    /\ fnIn.args = <<Arr(ExamplePairs), Arr(<<Earned(Str(<<"A">>), Num(100))>>)>>
    /\ fnOut = Arr(<<>>)

\* C8: getPreviousMonth of YYYY-MM is YYYY-(MM-1) for MM from 02 to 12, and
\* (YYYY-1)-12 for MM = 01
C8_PreviousMonth ==
    fnIn.fn = "getPreviousMonth" =>
        LET y == DigitsToNat(SubSeq(fnIn.args[1].s, 1, 4))
            m == DigitsToNat(SubSeq(fnIn.args[1].s, 6, 7))
        IN  fnOut = IF m >= 2 THEN MonthString(y, m - 1) ELSE MonthString(y - 1, 12)

\* C9: after one checkAndApplyRollover, rollover_items holds a document for
\* every previous-month record that has incomplete items, whatever the other
\* records are
C9_FailureIsolation ==
    FirstRunDone =>
        \A x \in PreviousDocs :
            Computed(x).kind = "items" =>
                \E r \in 1..Len(rollover_items) :
                    /\ rollover_items[r].targetMonth = TargetMonth
                    /\ rollover_items[r].agentKey = Computed(x).key

\* the key comes from the composite identifier
HasCompositeId(d) ==
    /\ d.userIdMonthId.t = "string"
    /\ Includes(d.userIdMonthId.s, "_")
    /\ SplitFirst(d.userIdMonthId.s, "_") # <<>>

\* every item is among the pairs of the record
MergedInto(d, items) ==
    \A n \in 1..Len(items.a) :
        \E m \in 1..Len(parseCommissionPairs(d.commission_property_pair).a) :
            parseCommissionPairs(d.commission_property_pair).a[m] = items.a[n]

\* C10: after one checkAndApplyRollover over a single previous-month record
\* with incomplete items, a target-month record whose composite identifier has
\* the same agent-id portion holds those items
C10_JoinConsistency ==
    (FirstRunDone /\ Cardinality(PreviousDocs) = 1) =>
        \A x \in PreviousDocs, y \in TargetDocs :
            (/\ HasCompositeId(leader_board[x]) /\ HasCompositeId(leader_board[y])
             /\ SplitFirst(leader_board[x].userIdMonthId.s, "_")
                  = SplitFirst(leader_board[y].userIdMonthId.s, "_")
             /\ Computed(x).kind = "items")
            => MergedInto(leader_board[y], Computed(x).items)

-----------------------------------------------------------------------------
(* Overlapping requests over records that share a key, and over several     *)
(* target-month records that lack rollover data                             *)

\* the previous-month records without userIdMonthId: their names give one key
RacePrevPool == {d \in PrevPool : d.userIdMonthId = Undefined}
\* the target-month records that lack rollover data
RaceCurPool == {d \in CurPool : MissingRollover(d)}

InitRace == InitWith(RacePrevPool, RaceCurPool)

\* each of the two requests is made once
StartOnce == \E p \in Procs, m \in RequestMonths : pc[p] = "idle" /\ Start(p, m)

NextRace ==
    \/ StartOnce
    \/ \E p \in Procs : Step(p)

SpecRace == InitRace /\ [][NextRace]_vars

\* ensureRolloverItemsCalculated run on its own from agent i on, every upsert
\* taking effect before the next begins: what rollover_items holds at the end
RECURSIVE CalculateAlone(_, _, _, _, _), CalculateNext(_, _, _, _, _)
CalculateAlone(previousData, i, targetMonth, previousMonth, coll) ==
    CalculateNext(previousData, targetMonth, previousMonth, coll,
                  NextOutcome(previousData, i, previousMonth))

CalculateNext(previousData, targetMonth, previousMonth, coll, next) ==
    LET Same(d) == MongoEq(d.targetMonth, targetMonth) /\ MongoEq(d.agentKey, next.o.key)
    IN  IF next.o.kind \in {"end", "throw"} THEN coll
        ELSE CalculateAlone(previousData, next.at + 1, targetMonth, previousMonth,
                 WriteUpsert(coll, MatchFirst([k \in 1..Len(coll) |-> Same(coll[k])]),
                             RolloverItemsDoc(targetMonth, next.o.key, previousMonth,
                                              next.o.items)))

\* the keys of a rollover_items collection, each with its item lists
MappingState(coll) == {<<coll[k].agentKey, coll[k].rolloverItems>> : k \in 1..Len(coll)}

\* both requests have returned, and each calculated afresh
BothCalculated ==
    /\ \A p \in Procs : pc[p] = "done"
    /\ Len(hist) = 2
    /\ hist[1].kind = "fresh" /\ hist[2].kind = "fresh"
    /\ hist[1].proc # hist[2].proc

\* C11: when two calculators that both found no stored mapping for the month
\* have returned, rollover_items holds the keys and the item lists that one
\* calculator running alone leaves
C11_CalculatorRaceBenign ==
    BothCalculated =>
        MappingState(rollover_items)
            = MappingState(CalculateAlone(ProjectAll(FindMonth(leader_board, PrevMonth)),
                                          1, TargetMonth, PrevMonth, <<>>))

\* the target-month record as it was before any request
AtStart(d) == [(CHOOSE c \in CurPool : c.AgentName = d.AgentName) EXCEPT !._id = d._id]

\* the record that applyRolloverToMissingRecords run alone with the mapping
\* makes of a target-month record
SequentialApply(d, rolloverItems) ==
    IF /\ MissingRollover(d)
       /\ rolloverItems.t = "array" /\ Len(rolloverItems.a) > 0
    THEN [d EXCEPT !.rollover_commission_list = Str(JSONStringify(rolloverItems)),
                   !.last_rollover_update = DateNow]
    ELSE d

\* the request has returned from applyRolloverToMissingRecords
Applied(p) == pc[p] = "done" /\ Get(local[p].result, <<"agentsUpdated">>) # Undefined

\* both requests have returned from applyRolloverToMissingRecords, which each
\* entered with the same mapping
BothApplied ==
    /\ \A p \in Procs : Applied(p)
    /\ Len(hist) = 2 /\ hist[1].proc # hist[2].proc /\ hist[1].map = hist[2].map

\* C12: when two applicators of the same month and mapping have returned,
\* every target-month record is what one applicator running alone makes of it
C12_ApplicatorRaceBenign ==
    BothApplied =>
        \A i \in TargetDocs :
            leader_board[i]
                = SequentialApply(AtStart(leader_board[i]),
                                  MapGet(hist[1].map, applicatorKey(leader_board[i])))

\* both applicators selected and wrote the same record
C12_Witness ==
    /\ BothApplied
    /\ \E a \in 1..Len(local["p1"].currentData), b \in 1..Len(local["p2"].currentData) :
          /\ local["p1"].currentData[a]._id = local["p2"].currentData[b]._id
          /\ MapHas(hist[1].map, applicatorKey(local["p1"].currentData[a]))
          /\ Len(MapGet(hist[1].map, applicatorKey(local["p1"].currentData[a])).a) >= 2

-----------------------------------------------------------------------------
(* A request whose process stops inside applyRolloverToMissingRecords, and  *)
(* the request that comes after it                                          *)

\* the process stops between two awaited updates of the loop
Crash(p) ==
    /\ pc[p] = "apply_loop"
    /\ pc' = [pc EXCEPT ![p] = "crashed"]
    /\ UNCHANGED <<dbVars, local, hist, runs, fnVars>>

\* the next request, served by another process
Restart ==
    /\ pc["p1"] = "crashed"
    /\ pc["p2"] = "idle"
    /\ \E m \in RequestMonths : Start("p2", m)

NextCrash ==
    \/ StartAlone
    \/ Crash("p1")
    \/ Restart
    \/ \E p \in Procs : Step(p)

SpecCrash == Init /\ [][NextCrash]_vars

\* the _id of the records that the find of the apply run of p selected
SelectedIds(p) == {local[p].currentData[k]._id : k \in 1..Len(local[p].currentData)}

\* the key of the record has a non-empty entry in the mapping of p
HasEntry(p, d) ==
    /\ applicatorKey(d).t # "throw"
    /\ MapHas(local[p].rolloverMap, applicatorKey(d))
    /\ Len(MapGet(local[p].rolloverMap, applicatorKey(d)).a) > 0

\* the _id of the records that the apply run of p has written: the loop is at
\* position j of its selection
WrittenIds(p) ==
    {local[p].currentData[k]._id :
        k \in {n \in 1..Len(local[p].currentData) :
                  n < local[p].j /\ HasEntry(p, local[p].currentData[n])}}

\* the run of p1 stopped inside its apply loop and the run of p2, with the same
\* mapping, has made its selection
Resumed ==
    /\ pc["p1"] = "crashed"
    /\ pc["p2"] \in {"apply_loop", "mark_write", "done"}
    /\ local["p2"].rolloverMap = local["p1"].rolloverMap

\* C13: after an apply run that stopped part-way, the next apply run with the
\* same mapping selects exactly the records the first selected and did not
\* write, writes none of the records the first wrote, and once it has returned
\* every target-month record whose key has a mapping entry holds a non-empty
\* rollover list
C13_SelfResuming ==
    Resumed =>
        /\ SelectedIds("p2") = SelectedIds("p1") \ WrittenIds("p1")
        /\ WrittenIds("p2") \cap WrittenIds("p1") = {}
        /\ Applied("p2") =>
              \A i \in TargetDocs :
                  HasEntry("p2", leader_board[i]) => NonEmptyRollover(leader_board[i])

\* the first run wrote one record and stopped before another that it would
\* have written; the second run wrote that one and returned
C13_Witness ==
    /\ Resumed
    /\ Applied("p2")
    /\ WrittenIds("p1") # {}
    /\ WrittenIds("p2") # {}

-----------------------------------------------------------------------------
(* Normalizer *)

\* a string of the value holds a backslash
HoldsBackslash(v) ==
    \/ v.t = "string" /\ \E k \in 1..Len(v.s) : v.s[k] = Backslash
    \/ v.t = "array" /\ \E n \in 1..Len(v.a) : \E m \in 1..Len(v.a[n].o) :
                           /\ v.a[n].o[m][2].t = "string"
                           /\ \E k \in 1..Len(v.a[n].o[m][2].s) :
                                 v.a[n].o[m][2].s[k] = Backslash

\* the raw text is the escaped-quote encoding between quotes
QuotedEscaped(pairs, raw) ==
    raw.s = <<Quote>> \o EscapeQuotes(JSONStringify(pairs)) \o <<Quote>>

-----------------------------------------------------------------------------
(* checkAndApplyRollover called with a month that is not YYYY-MM *)

\* the empty string, and strings that are not of the form YYYY-MM
MalformedMonths == {Str(<<>>), Str(<<"a", "b", "c">>), Str(<<"2", "0", "2", "6">>)}

StartMonth ==
    /\ \A q \in Procs : pc[q] \in {"idle", "done"}
    /\ \E m \in RequestMonths \cup MalformedMonths : Start("p1", m)

NextMonths ==
    \/ StartMonth
    \/ \E p \in Procs : Step(p)

SpecMonths == InitConc /\ [][NextMonths]_vars

\* C15: a call of checkAndApplyRollover with a malformed month has computed no
\* previous month and has returned the failure result; it is at no step that
\* reads or writes a collection
C15_MalformedFailsSoft ==
    \A p \in Procs :
        (pc[p] # "idle" /\ local[p].targetMonth \in MalformedMonths)
        => /\ local[p].previousMonth = Null
           /\ pc[p] = "done"
           /\ local[p].result = NoPreviousResult

-----------------------------------------------------------------------------
(* Status ledger: previous months with nothing unpaid, with no record, and   *)
(* apply runs                                                                *)

\* previous-month records with nothing to carry: the only pair earned, and the
\* only pair of value 0
SettledPool ==
    { AgentDoc(0, PrevMonth, PrevId("1"), Str(<<"J", "o">>),
               Arr(<<PairA50>>), Arr(<<Earned(Str(<<"a">>), Num(50))>>), Undefined),
      AgentDoc(0, PrevMonth, PrevId("2"), Str(<<"M">>),
               Arr(<<PairB0>>), Arr(<<>>), Undefined) }

\* with them, a record with one unpaid pair and a record with two
LedgerPrevPool ==
    SettledPool
        \cup {d \in PrevPool : d.earnedDetails = Arr(<<Earned(Str(<<"A">>), Num(50))>>)
                                 \/ d.AgentName = Str(<<"j", "o">>)}

InitLedger == InitWith(LedgerPrevPool, CurPool)

SpecLedger == InitLedger /\ [][Next]_vars

\* the rollover_status documents of the target month
StatusOfMonth ==
    LET Same(d) == d.month = TargetMonth
    IN  SelectSeq(rollover_status, Same)

\* the ledger holds a record of the target month with the reason
LedgerReason(reason) ==
    \E k \in 1..Len(StatusOfMonth) : StatusOfMonth[k].reason = Str(<<reason>>)

\* no target-month record has been written
NoneWritten == \A i \in TargetDocs : leader_board[i] = AtStart(leader_board[i])

\* C16: after a checkAndApplyRollover over a previous month that has records,
\* none of them with an incomplete item, the mapping is empty, the ledger holds
\* a record of the target month with reason no_incomplete_items, and no
\* target-month record has been written
C16_NothingUnpaid ==
    (/\ FirstRunDone
     /\ PreviousDocs # {}
     /\ \A x \in PreviousDocs : Computed(x).kind = "skip")
    => /\ Len(hist) = 1 /\ hist[1].map = <<>>
       /\ LedgerReason("no_incomplete_items")
       /\ NoneWritten

\* C19: after a checkAndApplyRollover with no record of the previous month, the
\* mapping is empty and the ledger holds a record of the target month with
\* reason no_previous_data
C19_NoPreviousData ==
    (FirstRunDone /\ PreviousDocs = {})
    => /\ Len(hist) = 1 /\ hist[1].map = <<>>
       /\ LedgerReason("no_previous_data")

\* the lengths of the lists held by the records ids, added up
RECURSIVE ItemsHeld(_)
ItemsHeld(ids) ==
    IF ids = {} THEN 0
    ELSE LET i == CHOOSE n \in ids : TRUE
         IN  Len(ParsedItems(leader_board[i].rollover_commission_list).a)
                 + ItemsHeld(ids \ {i})

\* C20: when an apply run has returned, the ledger holds one record of the
\* target month, with reason success_continuous_sync and the itemsMerged of
\* that run; agentsUpdated is the number of records the run wrote and
\* itemsMerged the sum of the lengths of the lists it wrote
C20_StatusOfLastRun ==
    Applied("p1") =>
        /\ StatusOfMonth
             = <<StatusDoc(TargetMonth, ItemsHeld(WrittenIds("p1")),
                           "success_continuous_sync", Null)>>
        /\ Get(local["p1"].result, <<"agentsUpdated">>)
             = Num(Cardinality(WrittenIds("p1")))
        /\ Get(local["p1"].result, <<"itemsMerged">>) = Num(ItemsHeld(WrittenIds("p1")))

\* a second apply run found nothing to write after the first wrote a list of
\* two items: the ledger holds itemsMerged = 0
C20_Witness ==
    /\ runs = 2
    /\ Applied("p1")
    /\ WrittenIds("p1") = {}
    /\ StatusOfMonth # <<>> /\ StatusOfMonth[1].itemsMerged = Num(0)
    /\ \E i \in TargetDocs :
          /\ leader_board[i].last_rollover_update = DateNow
          /\ Len(ParsedItems(leader_board[i].rollover_commission_list).a) = 2

-----------------------------------------------------------------------------
(* Storage operations that fail, and the dashboard handler that awaits      *)
(* checkAndApplyRollover                                                    *)

\* the steps at which a storage operation is awaited
StorageSteps ==
    {"calc_check", "calc_load", "calc_write", "apply_find", "apply_loop", "mark_write"}

\* an awaited operation that throws, with nothing to catch it
Uncaught(p, loc) == Finish(p, loc, Throw)

\* the catch of checkAndApplyRollover: { applied: false, error: error.message }
Rejected(p, loc) == Finish(p, loc, ErrorResult)

\* the storage operation that the request awaits is rejected: it has no effect
StorageFails(p) ==
    /\ pc[p] \in StorageSteps
    /\ Rejected(p, [local[p] EXCEPT !.write = <<>>])
    /\ hist' = Append(hist, [proc |-> p, kind |-> "rejected",
                             targetMonth |-> local[p].targetMonth,
                             map |-> local[p].rolloverMap,
                             previousData |-> local[p].previousData])
    /\ UNCHANGED <<dbVars, runs, fnVars>>

\* the handler once checkAndApplyRollover has returned: the find on leader_board
\* for the month, and the response
Serve(p) ==
    /\ pc[p] = "done"
    /\ local[p].result.t # "throw"
    /\ pc' = [pc EXCEPT ![p] = "idle"]
    /\ fnIn' = [fn |-> "handler", args |-> <<local[p].targetMonth>>]
    /\ fnOut' = [status |-> IF FindMonth(leader_board, local[p].targetMonth) = <<>>
                            THEN "404" ELSE "200",
                 leaderboard |-> FindMonth(leader_board, local[p].targetMonth)]
    /\ UNCHANGED <<dbVars, local, hist, runs>>

NextFail ==
    \/ StartAlone
    \/ \E p \in Procs : Step(p)
    \/ \E p \in Procs : StorageFails(p)
    \/ \E p \in Procs : Serve(p)

SpecFail == InitConc /\ [][NextFail]_vars

\* C17: whenever checkAndApplyRollover has returned it has returned a result
\* object, the failure result { applied: false, error } if the last thing that
\* happened to it was a storage operation that failed, and the handler can go
\* on to read the month's leader_board records
C17_NeverThrows ==
    \A p \in Procs :
        pc[p] = "done" =>
            /\ Get(local[p].result, <<"applied">>).t = "boolean"
            /\ (hist # <<>> /\ hist[Len(hist)].kind = "rejected")
                   => local[p].result = ErrorResult
            /\ ENABLED Serve(p)

\* a storage operation failed after the first upsert into rollover_items was
\* sent, checkAndApplyRollover returned the failure result and the handler
\* served the records of the month
C17_Witness ==
    /\ pc["p1"] = "idle"
    /\ hist # <<>> /\ hist[Len(hist)].kind = "rejected"
    /\ local["p1"].i > 1
    /\ local["p1"].result = ErrorResult
    /\ fnIn.fn = "handler" /\ fnOut.status = "200"

-----------------------------------------------------------------------------
(* Earned details in the calculator *)

\* an earned detail of the list has the normalized code of the pair and a
\* commission that is neither null nor undefined
ClaimedPaid(pair, earned) ==
    \E k \in 1..Len(earned.a) :
        /\ ClaimedCode(Get(earned.a[k], K_propertyCode))
             = ClaimedCode(Get(pair, K_propertyCode))
        /\ ~IsNullish(Get(earned.a[k], K_commission))

\* the items are the pairs, in order, each with its code and value
SamePairs(items, pairs) ==
    /\ Len(items) = Len(pairs)
    /\ \A k \in 1..Len(pairs) :
          /\ Get(items[k], K_propertyCode) = Get(pairs[k], K_propertyCode)
          /\ Get(items[k], K_commissionValue) = Get(pairs[k], K_commissionValue)

\* C18: the calculator carries a valid non-zero pair of a previous-month record
\* exactly when no earned detail of the record with the same normalized code
\* has a commission other than null and undefined: a commission of 0 excludes
\* the pair, a null or absent commission does not
C18_EarnedAsymmetry ==
    fnIn.fn = "AgentRollover" =>
        LET earned == fnIn.args[1].earnedDetails
            Carried(pair) == ClaimedKept(pair, Arr(<<>>)) /\ ~ClaimedPaid(pair, earned)
        IN  SamePairs(IF fnOut.kind = "items" THEN fnOut.items.a ELSE <<>>,
                      SelectSeq(fnIn.args[1].commission_property_pair.a, Carried))

\* A is excluded by an earned detail of commission 0 and B is carried although
\* an earned detail of B has a null commission
C18_Witness ==
    /\ fnIn.fn = "AgentRollover"
    /\ fnIn.args[1].commission_property_pair = Arr(<<PairA50, PairB75>>)
    /\ fnIn.args[1].earnedDetails
         = Arr(<<Earned(Str(<<"A">>), Num(0)), Earned(Str(<<"B">>), Null)>>)
    /\ fnOut.kind = "items"
    /\ SamePairs(fnOut.items.a, <<PairB75>>)

-----------------------------------------------------------------------------
(* Agent keys: records whose key is empty *)

\* previous-month records with an unpaid pair: key u1, a blank name and no
\* identifier, an identifier that starts with the underscore, an identifier
\* without underscore beside a name
KeyPrevPool ==
    { AgentDoc(0, PrevMonth, PrevId("1"), Str(<<"J", "o">>),
               Str(JSONStringify(Arr(<<PairA50, PairB75>>))),
               Arr(<<Earned(Str(<<"A">>), Num(50))>>), Undefined),
      AgentDoc(0, PrevMonth, Undefined, Str(<<" ">>),
               Arr(<<PairB75>>), Arr(<<>>), Undefined),
      AgentDoc(0, PrevMonth, Str(<<"_", "x">>), Str(<<"M">>),
               Arr(<<PairB75>>), Arr(<<>>), Undefined),
      AgentDoc(0, PrevMonth, Str(<<"u", "1">>), Str(<<" ", "J", "o">>),
               Arr(<<PairA50>>), Arr(<<>>), Undefined) }

\* target-month records without rollover data: key u1, no name and no
\* identifier, an identifier that starts with the underscore beside the name Jo,
\* the name jo
KeyCurPool ==
    { AgentDoc(0, TargetMonth, CurId("1"), Str(<<"J", "o", "e">>),
               Arr(<<PairA50>>), Arr(<<>>), Undefined),
      AgentDoc(0, TargetMonth, Undefined, Undefined,
               Arr(<<>>), Arr(<<>>), Undefined),
      AgentDoc(0, TargetMonth, Str(<<"_", "x">>), Str(<<"J", "o">>),
               Arr(<<>>), Arr(<<>>), Null),
      AgentDoc(0, TargetMonth, Undefined, Str(<<"j", "o">>),
               Arr(<<>>), Arr(<<>>), Null) }

InitKeys == InitWith(KeyPrevPool, KeyCurPool)

SpecKeys == InitKeys /\ [][Next]_vars

\* the key of a record, from its statement: the text before the first
\* underscore of the identifier, else the trimmed lowercased name
ClaimedKey(d) ==
    IF d.userIdMonthId.t = "string" /\ \E k \in 1..Len(d.userIdMonthId.s) :
                                           d.userIdMonthId.s[k] = "_"
    THEN LET s == d.userIdMonthId.s
             u == CHOOSE k \in 1..Len(s) : s[k] = "_" /\ \A n \in 1..(k - 1) : s[n] # "_"
         IN  Str(SubSeq(s, 1, u - 1))
    ELSE IF d.AgentName.t = "string" THEN Str(ToLowerCase(Trim(d.AgentName.s)))
    ELSE Str(<<>>)

\* the record has a pair to carry
HasIncomplete(d) ==
    Len(AgentIncomplete(d, FilteredEarned(d.earnedDetails)).a) > 0

\* the keys that the previous-month records with a pair to carry resolve to,
\* the empty key left out
ClaimedKeys(previousData) ==
    {ClaimedKey(previousData[k]) :
        k \in {n \in 1..Len(previousData) : HasIncomplete(previousData[n])}}
        \ {Str(<<>>)}

\* C21: the mapping of a fresh calculation has exactly the non-empty keys that
\* its previous-month records with a pair to carry resolve to (the text before
\* the first underscore of the identifier, else the trimmed lowercased name),
\* rollover_items holds records of these keys only, and a target-month record
\* is written only with the mapping entry of its non-empty key
C21_KeyResolution ==
    /\ \A h \in 1..Len(hist) :
          hist[h].kind = "fresh" =>
              {hist[h].map[k][1] : k \in 1..Len(hist[h].map)}
                  = ClaimedKeys(hist[h].previousData)
    /\ \A r \in 1..Len(rollover_items) :
          rollover_items[r].agentKey
              \in ClaimedKeys(ProjectAll(FindMonth(leader_board, PrevMonth)))
    /\ \A i \in TargetDocs :
          IF ClaimedKey(leader_board[i]) = Str(<<>>)
          THEN /\ leader_board[i].last_rollover_update = Undefined
               /\ MissingRollover(leader_board[i])
          ELSE leader_board[i].last_rollover_update = DateNow
                  => \E r \in 1..Len(rollover_items) :
                        /\ rollover_items[r].agentKey = ClaimedKey(leader_board[i])
                        /\ rollover_items[r].rolloverItems
                             = leader_board[i].rollover_commission_list

\* a run has returned over a previous-month record of empty key with a pair to
\* carry and two target-month records, one of empty key, one written
C21_Witness ==
    /\ FirstRunDone
    /\ Applied("p1")
    /\ \E x \in PreviousDocs :
          /\ ClaimedKey(leader_board[x]) = Str(<<>>)
          /\ HasIncomplete(ProjectPrevious(leader_board[x]))
    /\ \E i, j \in TargetDocs :
          /\ ClaimedKey(leader_board[i]) = Str(<<>>)
          /\ leader_board[i].AgentName = Str(<<"J", "o">>)
          /\ leader_board[j].last_rollover_update = DateNow

-----------------------------------------------------------------------------
(* Previous-month records that change after the mapping was persisted: the  *)
(* records of leader_board are written by the feed outside this program     *)

\* what a previous-month record may become
DriftPool == ConcPrevPool \cup SettledPool

\* the feed rewrites a previous-month record
EditPrevious ==
    /\ \E i \in PreviousDocs, d \in DriftPool :
          /\ [d EXCEPT !._id = i] # leader_board[i]
          /\ leader_board' = [leader_board EXCEPT ![i] = [d EXCEPT !._id = i]]
    /\ UNCHANGED <<rollover_items, rollover_status, procVars, fnVars>>

NextDrift ==
    \/ StartAlone
    \/ EditPrevious
    \/ \E p \in Procs : Step(p)

SpecDrift == InitConc /\ [][NextDrift]_vars

\* rollover_items holds a record of the month
Persisted(month) == \E r \in 1..Len(rollover_items) : rollover_items[r].targetMonth = month

\* the rollover_items records of the month
PersistedFor(month) ==
    LET InMonth(d) == d.targetMonth = month
    IN  SelectSeq(rollover_items, InMonth)

\* C22: a calculate whose cache check finds a rollover_items record of its
\* month returns at that step the mapping rebuilt from the stored records: it
\* has read no previous-month record, it writes no collection, and it never
\* enters the fresh calculation
C22_FastPath ==
    [][\A p \in Procs :
          (/\ pc[p] = "calc_check" /\ pc'[p] # "calc_check"
           /\ Persisted(local[p].targetMonth))
          => /\ pc'[p] \in {"apply_find", "done"}
             /\ local'[p].previousData = <<>>
             /\ local'[p].rolloverMap
                  = LoadExisting(PersistedFor(local[p].targetMonth), <<>>)
             /\ hist' = Append(hist, [proc |-> p, kind |-> "cache",
                                      targetMonth |-> local[p].targetMonth,
                                      map |-> local'[p].rolloverMap,
                                      previousData |-> <<>>])
             /\ <<leader_board, rollover_items, rollover_status>>'
                  = <<leader_board, rollover_items, rollover_status>>]_vars

\* a second calculate returned the stored mapping although the previous-month
\* records have changed and a fresh calculation would now give another mapping
C22_Witness ==
    /\ Len(hist) = 2
    /\ hist[1].kind = "fresh" /\ hist[2].kind = "cache"
    /\ hist[2].map = hist[1].map
    /\ BuildMap(ProjectAll(FindMonth(leader_board, PrevMonth)), 1, PrevMonth, <<>>).map
         # hist[2].map

-----------------------------------------------------------------------------
(* Normalizer on values that are no encoding of a commission list *)

\* C23: parseCommissionPairs returns a sequence as it is, and the empty
\* sequence for null, undefined, the empty string, a value that is neither
\* text nor sequence, and text that parses to no sequence; it never throws
C23_FailsSoft ==
    fnIn.fn = "parseCommissionPairs (any value)" =>
        /\ fnOut.t # "throw"
        /\ fnOut = IF fnIn.args[1].t = "array" THEN fnIn.args[1] ELSE Arr(<<>>)

\* the text of a JSON object under two layers of encoding gave the empty
\* sequence
C23_Witness ==
    /\ fnIn.fn = "parseCommissionPairs (any value)"
    /\ fnIn.args[1] = Str(JSONStringify(Str(JSONStringify(PairA50))))
    /\ fnOut = Arr(<<>>)

-----------------------------------------------------------------------------
(* Frame on leader_board *)

\* the record without its rollover list and its last-update timestamp
NativeFields(d) ==
    [d EXCEPT !.rollover_commission_list = Undefined, !.last_rollover_update = Undefined]

\* C24: no step of checkAndApplyRollover adds or removes a leader_board
\* record, changes a record of another month than the target month, or changes
\* a field of a target-month record other than the rollover list and the
\* last-update timestamp
C24_Frame ==
    [][/\ Len(leader_board') = Len(leader_board)
       /\ \A i \in 1..Len(leader_board) :
             /\ NativeFields(leader_board'[i]) = NativeFields(leader_board[i])
             /\ leader_board[i].month # TargetMonth => leader_board'[i] = leader_board[i]]_vars

-----------------------------------------------------------------------------
(* The admin manual merge and the force script: the status record of the    *)
(* month is deleted, then checkAndApplyRollover is called                   *)

\* deleteOne: the collection without its document k, unchanged for k = 0
DeleteOne(coll, k) ==
    IF k = 0 THEN coll ELSE SubSeq(coll, 1, k - 1) \o SubSeq(coll, k + 1, Len(coll))

\* await deleteOne({ month: targetMonth }), then checkAndApplyRollover up to
\* its first awaited find
ForceMerge ==
    /\ \A q \in Procs : pc[q] \in {"idle", "done"}
    /\ runs < MaxRuns
    /\ runs' = runs + 1
    /\ \E m \in RequestMonths :
          /\ rollover_status'
               = DeleteOne(rollover_status,
                           MatchFirst([i \in 1..Len(rollover_status) |->
                                          MongoEq(rollover_status[i].month, m)]))
          /\ Enter("p1", [InitLocal EXCEPT !.targetMonth = m,
                                           !.previousMonth = getPreviousMonth(m)],
                   "calc_check")
    /\ UNCHANGED <<leader_board, rollover_items, hist, fnVars>>

NextAdmin ==
    \/ ForceMerge
    \/ EditPrevious
    \/ \E p \in Procs : Step(p)

SpecAdmin == InitConc /\ [][NextAdmin]_vars

\* C25: every checkAndApplyRollover that follows the deletion of the status
\* record of its month evaluates the rollover from the previous-month records:
\* no calculation of such an invocation returns the stored mapping
C25_DeleteForcesFresh ==
    \A h \in 1..Len(hist) : hist[h].kind = "fresh"

-----------------------------------------------------------------------------
(* Target-month records that the feed creates or resets between requests    *)

\* at most this many records created by the feed
MaxNew == 1

\* the records the feed may create: key u1, and key jo with an empty rollover
\* list
NewPool ==
    { AgentDoc(0, TargetMonth, CurId("1"), Str(<<"N", "e", "w">>),
               Arr(<<PairA50>>), Arr(<<>>), Undefined),
      AgentDoc(0, TargetMonth, Undefined, Str(<<"J", "o", " ", " ">>),
               Arr(<<>>), Arr(<<>>), Str(<<>>)) }

\* the values of a rollover field that count as missing
MissingValues == {Undefined, Null, Str(<<>>), Str(<<"[", "]">>)}

\* the records the feed created
Created == {i \in 1..Len(leader_board) : [leader_board[i] EXCEPT !._id = 0,
                                             !.rollover_commission_list = Undefined,
                                             !.last_rollover_update = Undefined]
                                         \in {NativeFields(d) : d \in NewPool}}

\* every request has been answered, and another will follow
Answered ==
    /\ runs >= 1 /\ runs < MaxRuns
    /\ \A q \in Procs : pc[q] \in {"idle", "done"}
    /\ pc' = [p \in Procs |-> "idle"]
    /\ local' = [p \in Procs |-> InitLocal]

\* between two requests the feed creates a target-month record
NewTarget ==
    /\ Cardinality(Created) < MaxNew
    /\ \E d \in NewPool :
          leader_board' = Append(leader_board, [d EXCEPT !._id = Len(leader_board) + 1])
    /\ Answered
    /\ UNCHANGED <<rollover_items, rollover_status, hist, runs, fnVars>>

\* between two requests the feed resets the rollover field of a target-month
\* record that a run has written
ResetTarget ==
    /\ \E i \in TargetDocs, v \in MissingValues :
          /\ ~MissingRollover(leader_board[i])
          /\ leader_board[i].last_rollover_update = DateNow
          /\ leader_board' = [leader_board EXCEPT ![i].rollover_commission_list = v]
    /\ Answered
    /\ UNCHANGED <<rollover_items, rollover_status, hist, runs, fnVars>>

NextSync ==
    \/ StartAlone
    \/ NewTarget
    \/ ResetTarget
    \/ \E p \in Procs : Step(p)

\* the target-month records of agent u1: one without rollover data, one with a
\* list that an earlier run stored
SyncCurPool == {d \in CurPool : d.userIdMonthId = CurId("1")}

InitSync == InitWith(ConcPrevPool, SyncCurPool)

SpecSync == InitSync /\ [][NextSync]_vars

\* C26: when an apply run has returned, every target-month record whose key
\* has a non-empty mapping entry holds that entry as its rollover list, unless
\* it holds a non-empty list that no run wrote; so a record created or reset
\* since the last run has received the list of its key
C26_ContinuousSync ==
    Applied("p1") =>
        \A i \in TargetDocs :
            HasEntry("p1", leader_board[i]) =>
                \/ leader_board[i].rollover_commission_list
                     = Str(JSONStringify(MapGet(local["p1"].rolloverMap,
                                                applicatorKey(leader_board[i]))))
                \/ /\ NonEmptyRollover(leader_board[i])
                   /\ leader_board[i].last_rollover_update = Undefined

\* after a first run that calculated and applied, a later run with the stored
\* mapping wrote a record that the feed created and a record that the feed
\* reset to the empty-array literal or to null
C26_Witness ==
    /\ runs >= 2
    /\ Applied("p1")
    /\ Len(hist) >= 2 /\ hist[1].kind = "fresh" /\ hist[Len(hist)].kind = "cache"
    /\ \E i \in Created : i \in WrittenIds("p1")
    /\ \E i \in TargetDocs \ Created : i \in WrittenIds("p1")

-----------------------------------------------------------------------------
(* Calculators that overlap: the mapping each returns *)

\* the entries of a Map, whatever their order
MapEntries(m) == {m[k] : k \in 1..Len(m)}

\* the mapping that one calculate running alone returns for the stored
\* previous-month records
CompleteMapping ==
    BuildMap(ProjectAll(FindMonth(leader_board, PrevMonth)), 1, PrevMonth, <<>>).map

\* C27: every mapping that a calculator has returned, whatever the other
\* calculator was doing, has the keys and the item lists of the mapping that
\* one calculate running alone returns
C27_CompleteUnderRace ==
    \A h \in 1..Len(hist) : MapEntries(hist[h].map) = MapEntries(CompleteMapping)

-----------------------------------------------------------------------------
(* A calculation that stops part-way, and the calculate that comes after it *)

\* rollover_items holds the entry under its key
Stored(e) ==
    \E r \in 1..Len(rollover_items) :
        /\ rollover_items[r].targetMonth = TargetMonth
        /\ rollover_items[r].agentKey = e[1]
        /\ rollover_items[r].rolloverItems = Str(JSONStringify(e[2]))

\* C28: every calculate that has returned a mapping, also one that follows a
\* calculation stopped by a storage error after some of its upserts, has
\* returned the complete mapping of the previous-month records, and
\* rollover_items holds every entry of that mapping
C28_RetryCompletes ==
    \A h \in 1..Len(hist) :
        hist[h].kind \in {"fresh", "cache"} =>
            /\ MapEntries(hist[h].map) = MapEntries(CompleteMapping)
            /\ \A e \in MapEntries(CompleteMapping) : Stored(e)

-----------------------------------------------------------------------------
(* Well-formed mappings and mapping records *)

\* the items that a rollover_items record holds
StoredItems(r) == JSONParse(r.rolloverItems.s)

\* C29: every mapping that a calculate has returned, fresh or loaded, has only
\* non-empty keys and non-empty item lists; every rollover_items record of the
\* target month has the previous month as its sourceMonth, an itemCount equal
\* to the number of items it holds, and items that all carry isRollover = true
\* and the previous month as their sourceMonth
C29_WellFormedMapping ==
    /\ \A h \in 1..Len(hist) : \A k \in 1..Len(hist[h].map) :
          /\ hist[h].map[k][1].t = "string" /\ hist[h].map[k][1].s # <<>>
          /\ hist[h].map[k][2].t = "array" /\ Len(hist[h].map[k][2].a) > 0
    /\ \A r \in 1..Len(rollover_items) :
          LET items == StoredItems(rollover_items[r])
          IN  /\ rollover_items[r].targetMonth = TargetMonth
              /\ rollover_items[r].sourceMonth = PrevMonth
              /\ items.t = "array"
              /\ rollover_items[r].itemCount = Num(Len(items.a))
              /\ \A n \in 1..Len(items.a) :
                    /\ Get(items.a[n], K_isRollover) = Bool(TRUE)
                    /\ Get(items.a[n], K_sourceMonth) = PrevMonth

\* a mapping with an entry of two items was calculated, stored in a record with
\* itemCount 2, and loaded again by a second call
C29_Witness ==
    /\ Len(hist) = 2 /\ hist[1].kind = "fresh" /\ hist[2].kind = "cache"
    /\ \E k \in 1..Len(hist[2].map) : Len(hist[2].map[k][2].a) = 2
    /\ \E r \in 1..Len(rollover_items) : rollover_items[r].itemCount = Num(2)

-----------------------------------------------------------------------------
(* Month chains: a request for the month after the target month, whose       *)
(* previous month is the target month                                        *)

NextMonth == Str(<<"2", "0", "2", "6", "-", "0", "2">>)

\* records of 2025-12 and of 2026-01: an unpaid pair B of 2025-12; a record of
\* 2026-01 with the unpaid native pair A and no rollover data; a record of
\* 2026-01 with the unpaid native pair B and a rollover list carried from
\* 2025-12
ChainSourcePool ==
    { AgentDoc(0, PrevMonth, PrevId("1"), Str(<<"J", "o">>),
               Arr(<<PairB75>>), Arr(<<>>), Undefined),
      AgentDoc(0, TargetMonth, CurId("1"), Str(<<"J", "o">>),
               Arr(<<PairA50>>), Arr(<<>>), Undefined),
      AgentDoc(0, TargetMonth, Undefined, Str(<<"J", "o">>),
               Str(JSONStringify(Arr(<<PairB75>>))), Arr(<<>>), StoredList) }

\* records of 2026-02 without rollover data
ChainTargetPool ==
    { AgentDoc(0, NextMonth, UserId("1", <<"2", "0", "2", "6", "0", "2">>), Str(<<"J", "o">>),
               Arr(<<>>), Arr(<<>>), Undefined),
      AgentDoc(0, NextMonth, Undefined, Str(<<"j", "o">>),
               Arr(<<>>), Arr(<<>>), Null) }

InitChain == InitWith(ChainSourcePool, ChainTargetPool)

\* one request at a time, for either month
StartChain ==
    /\ \A q \in Procs : pc[q] \in {"idle", "done"}
    /\ \E m \in {TargetMonth, NextMonth} : Start("p1", m)

NextChain ==
    \/ StartChain
    \/ \E p \in Procs : Step(p)

SpecChain == InitChain /\ [][NextChain]_vars

\* the items are the pairs of the native list of a record of the month whose
\* key is the given one
FromNative(key, items, month) ==
    \E i \in 1..Len(leader_board) :
        /\ leader_board[i].month = month
        /\ ClaimedKey(leader_board[i]) = key
        /\ SamePairs(items.a, parseCommissionPairs(leader_board[i].commission_property_pair).a)

\* C30: the mapping calculated for 2026-02 holds, per key, the pairs of the
\* native list of a 2026-01 record of that key, each tagged with source month
\* 2026-01, and nothing of what a 2026-01 record holds in its rollover field;
\* no step of a request for 2026-02 changes a 2026-01 record
C30_ChainsKeepData ==
    /\ [](\A h \in 1..Len(hist) :
            hist[h].targetMonth = NextMonth =>
                \A k \in 1..Len(hist[h].map) :
                    /\ FromNative(hist[h].map[k][1], hist[h].map[k][2], TargetMonth)
                    /\ \A n \in 1..Len(hist[h].map[k][2].a) :
                          Get(hist[h].map[k][2].a[n], K_sourceMonth) = TargetMonth)
    /\ [][local'["p1"].targetMonth = NextMonth =>
             \A i \in 1..Len(leader_board) :
                 leader_board[i].month = TargetMonth => leader_board'[i] = leader_board[i]]_vars

\* a request for 2026-02 has calculated and applied a mapping while a 2026-01
\* record of the same key holds, in its rollover field, an item of 2025-12 that
\* is not in its native list
C30_Witness ==
    /\ Applied("p1")
    /\ local["p1"].targetMonth = NextMonth
    /\ WrittenIds("p1") # {}
    /\ \E i \in 1..Len(leader_board) :
          /\ leader_board[i].month = TargetMonth
          /\ NonEmptyRollover(leader_board[i])
          /\ MapHas(local["p1"].rolloverMap, ClaimedKey(leader_board[i]))
          /\ ~SamePairs(ParsedItems(leader_board[i].rollover_commission_list).a,
                        parseCommissionPairs(leader_board[i].commission_property_pair).a)
          /\ Get(ParsedItems(leader_board[i].rollover_commission_list).a[1], K_sourceMonth)
               = PrevMonth

====
